---- MODULE Spec2Model ----
(***************************************************************************)
(* Model of the lium CLI core: the Pareto selector of cli/utils.py, the    *)
(* action pipeline of cli/core (runner, reporter, concrete actions), the   *)
(* executor resolution helpers of cli/core/helpers.py and the fan-out      *)
(* helper Lium.exec_all of lium/sdk/client.py.                             *)
(***************************************************************************)
EXTENDS Integers, Sequences, FiniteSets, TLC

\* Python's None / an absent dictionary key, for integer-valued fields.
Absent == -1

\* ------------------------------------------------------------------------
\* Bounds of the model
\* ------------------------------------------------------------------------
MaxCandidates == 3

MaxTargets == 3

MaxWorkers == 2

MaxPreflight == 4

MaxPolls == 4

MaxTimeout == 3

\* Status polls of the Jupyter installation without a final status before
\* the terminal one (besides the counts around the loop's last poll).
MaxPending == 2

\* ------------------------------------------------------------------------
\* Selector: extract_executor_metrics, dominates, calculate_pareto_frontier
\* ------------------------------------------------------------------------

\* float('inf'): larger than every price of the model.
Inf == 1000000

MiBPerGB == 1024

KBPerGB == 1024 * 1024

\* Keys of the metrics dictionary, in the insertion order of the dict literal.
MetricOrder ==
    << "price_per_gpu_hour", "vram_gb", "ram_gb", "disk_gb", "pcie_speed",
       "memory_bandwidth", "tflops", "net_up", "net_down" >>

MetricNames == { MetricOrder[k] : k \in 1..Len(MetricOrder) }

minimize_metrics == { "price_per_gpu_hour" }

\* d.get(key, 0) on a specs sub-dictionary whose key may be missing.
GetOrZero(v) == IF v = Absent THEN 0 ELSE v

\* An executor as Pareto comparison reads it: price_per_gpu_hour (None when
\* Absent) and the raw specs values (key missing when Absent): capacity in
\* MiB, ram/disk totals in KB, speeds as reported.
extract_executor_metrics(e) ==
    [ price_per_gpu_hour |->
          IF e.price_per_gpu_hour = Absent \/ e.price_per_gpu_hour = 0
          THEN Inf ELSE e.price_per_gpu_hour,
      vram_gb          |-> GetOrZero(e.capacity) \div MiBPerGB,
      ram_gb           |-> GetOrZero(e.ram_total) \div KBPerGB,
      disk_gb          |-> GetOrZero(e.disk_total) \div KBPerGB,
      pcie_speed       |-> GetOrZero(e.pcie_speed),
      memory_bandwidth |-> GetOrZero(e.memory_speed),
      tflops           |-> GetOrZero(e.graphics_speed),
      net_up           |-> GetOrZero(e.upload_speed),
      net_down         |-> GetOrZero(e.download_speed) ]

\* The loop of dominates from metric k on; better is at_least_one_better.
RECURSIVE DominatesFrom(_, _, _, _)
DominatesFrom(metrics_a, metrics_b, k, better) ==
    IF k > Len(MetricOrder) THEN better
    ELSE LET metric == MetricOrder[k]
             val_a == metrics_a[metric]
             val_b == metrics_b[metric]
         IN IF metric \in minimize_metrics
            THEN IF val_a < val_b
                 THEN DominatesFrom(metrics_a, metrics_b, k + 1, TRUE)
                 ELSE IF val_a > val_b THEN FALSE
                 ELSE DominatesFrom(metrics_a, metrics_b, k + 1, better)
            ELSE IF val_a > val_b
                 THEN DominatesFrom(metrics_a, metrics_b, k + 1, TRUE)
                 ELSE IF val_a < val_b THEN FALSE
                 ELSE DominatesFrom(metrics_a, metrics_b, k + 1, better)

\* A dominance test that forgets "strictly better on at least one".
dominates_withoutStrict(metrics_a, metrics_b) ==
    DominatesFrom(metrics_a, metrics_b, 1, TRUE)

dominates(metrics_a, metrics_b) == DominatesFrom(metrics_a, metrics_b, 1, FALSE)

metrics_list(execs) == [ i \in 1..Len(execs) |-> extract_executor_metrics(execs[i]) ]

\* A selector that returns the frontier's flags only, not a parallel list.
calculate_pareto_frontier_frontierOnly(execs) ==
    LET ml == metrics_list(execs)
    IN SelectSeq([ i \in 1..Len(execs) |->
                     ~ \E j \in 1..Len(execs) : i # j /\ dominates(ml[j], ml[i]) ],
                 LAMBDA flag : flag)


calculate_pareto_frontier(execs) ==
    LET ml == metrics_list(execs)
    IN [ i \in 1..Len(execs) |->
           ~ \E j \in 1..Len(execs) : i # j /\ dominates(ml[j], ml[i]) ]

\* ------------------------------------------------------------------------
\* Values of the pipeline: Options, Context, executors, events, errors
\* ------------------------------------------------------------------------

\* Python's None for string-valued fields.
None == "None"

\* The executor slot of a fresh Context (ctx.executor = None).
NoExecutor ==
    [ id |-> None, gpu_type |-> None, gpu_count |-> Absent, country_code |-> None,
      available_port_count |-> Absent, price_per_gpu_hour |-> Absent,
      capacity |-> Absent, ram_total |-> Absent, disk_total |-> Absent,
      pcie_speed |-> Absent, memory_speed |-> Absent, graphics_speed |-> Absent,
      upload_speed |-> Absent, download_speed |-> Absent ]

\* An ExecutorInfo; country_code is None when the location has none and
\* available_port_count is Absent when the specs carry none.
Executor(id, gpu, cnt, cc, ports, price, cap) ==
    [ NoExecutor EXCEPT !.id = id, !.gpu_type = gpu, !.gpu_count = cnt,
      !.country_code = cc, !.available_port_count = ports,
      !.price_per_gpu_hour = price, !.capacity = cap ]

\* UpContext.__init__: every slot starts as None.
NewContext ==
    [ executor |-> NoExecutor, template |-> None, volume |-> None,
      pod_info |-> None, pod_id |-> None, pod |-> None, ssh_cmd |-> None,
      jupyter_url |-> None ]

\* Reporter.__init__ (current_step = total_steps = 0); a NullReporter has no
\* counters, its two fields stay 0.
NewReporter(kind) == [ kind |-> kind, current_step |-> 0, total_steps |-> 0 ]

ReporterKinds == { "Reporter", "NullReporter" }

\* One observable event: a call on the Reporter, on the module console, on a
\* collaborator, or the start of an action's execute.
Ev(ev, arg) == [ ev |-> ev, arg |-> arg, n |-> 0 ]

EvN(ev, arg, n) == [ ev |-> ev, arg |-> arg, n |-> n ]

\* A call of a collaborator that returned, and one that raised.
Call(name) == Ev("call", name)

CallRaised(name) == Ev("call raised", name)

\* An exception: where it was raised and the action identity attached to
\* it (None: nothing attached).
Error(origin) == [ origin |-> origin, action |-> None ]

NoError == [ origin |-> None, action |-> None ]

\* Reporter.set_total_steps / NullReporter.set_total_steps
set_total_steps(rep, total) ==
    IF rep.kind = "Reporter" THEN [ rep EXCEPT !.total_steps = total ] ELSE rep

\* A step scope that numbers its step whether or not a total was set.
step_alwaysNumbered(rep) ==
    IF rep.kind = "Reporter" THEN [ rep EXCEPT !.current_step = @ + 1 ] ELSE rep

\* Reporter.step / NullReporter.step on entry of the scope.
step(rep) ==
    IF rep.kind = "Reporter" /\ rep.total_steps > 0
    THEN [ rep EXCEPT !.current_step = @ + 1 ]
    ELSE rep

\* The event of entering reporter.step(title): n is the displayed step
\* number (0 when no number is displayed).
StepEvent(rep, title) ==
    EvN("reporter.step", title, IF step(rep).current_step # rep.current_step
                                THEN step(rep).current_step ELSE 0)

\* Reporter.error prints through console.error, NullReporter.error is inert.
ReporterError(rep, msg) ==
    IF rep.kind = "Reporter"
    THEN << Ev("reporter.error", msg), Ev("console.error", msg) >>
    ELSE << Ev("reporter.error", msg) >>

\* Python truthiness of Optional[str] and Optional[int] option values.
TruthyS(v) == v # None /\ v # ""

TruthyN(v) == v # Absent /\ v # 0

\* ------------------------------------------------------------------------
\* helpers.py: executor resolution
\* ------------------------------------------------------------------------

\* str.isdigit() on the identifiers of the model, and int() of an index.
DigitStrings == { "1", "2", "3" }

IndexOf(s) == CASE s = "1" -> 1 [] s = "2" -> 2 [] s = "3" -> 3 [] OTHER -> 0

\* resolve_executor_indices([index]) against the stored last selection:
\* the stored id at that index, or an error message and no id.
resolve_executor_indices(index, store) ==
    IF IndexOf(index) \in 1..Len(store)
    THEN [ ids |-> << store[IndexOf(index)] >>, error |-> FALSE ]
    ELSE [ ids |-> << >>, error |-> TRUE ]

\* _get_executor_id: [id, events]; id = None when the resolution failed.
_get_executor_id(executor_id, store) ==
    IF executor_id \in DigitStrings
    THEN LET r == resolve_executor_indices(executor_id, store)
         IN [ id |-> IF Len(r.ids) > 0 THEN r.ids[1]
                     ELSE IF r.error THEN None ELSE executor_id,
              events |-> IF r.error THEN << Ev("console.error", "invalid index") >>
                         ELSE << >> ]
    ELSE [ id |-> executor_id, events |-> << >> ]

\* Lium.get_executor: the first executor of the catalog with that id.
RECURSIVE get_executor(_, _)
get_executor(catalog, id) ==
    IF catalog = << >> THEN NoExecutor
    ELSE IF Head(catalog).id = id THEN Head(catalog)
    ELSE get_executor(Tail(catalog), id)

IdsOf(catalog) == [ i \in 1..Len(catalog) |-> catalog[i].id ]

\* The event of one lium.get_executor call: n is 1 when it returned an
\* executor, 0 when it returned None.
Lookup(found) == EvN("call", "lium.get_executor", IF found = NoExecutor THEN 0 ELSE 1)

\* A resolution that refreshes and looks up again whatever the first
\* lookup returned.
NeedsRetry_always(executor) == TRUE

\* "Single retry if not found": the test guarding the refresh and the
\* second lookup.
NeedsRetry(executor) == executor = NoExecutor

\* _find_executor_by_id: [executor, events]. w is the environment of the
\* resolution: the stored last selection, the catalog lium.ls() returns
\* before and from the refresh on, whether the API knows the GPU type, and
\* the number typed at the interactive prompt.
_find_executor_by_id(w, executor_id, ports) ==
    LET first == _get_executor_id(executor_id, w.store)
        lookup1 == get_executor(w.catalog, first.id)
        second == _get_executor_id(executor_id, IdsOf(w.refreshed))
        lookup2 == get_executor(w.refreshed, second.id)
        CheckPorts(executor, events) ==
            IF TruthyN(ports)
               /\ (~ TruthyN(executor.available_port_count)
                   \/ executor.available_port_count < ports)
            THEN [ executor |-> NoExecutor,
                   events |-> Append(events, Ev("console.error", "insufficient ports")) ]
            ELSE [ executor |-> executor, events |-> events ]
    IN IF first.id = None
       THEN [ executor |-> NoExecutor, events |-> first.events ]
       ELSE LET ev1 == Append(first.events, Lookup(lookup1))
            IN IF ~ NeedsRetry(lookup1) THEN CheckPorts(lookup1, ev1)
               ELSE LET ev2 == Append(ev1, Call("ls_store_executor")) \o second.events
                    IN IF second.id = None
                       THEN [ executor |-> NoExecutor, events |-> ev2 ]
                       ELSE LET ev3 == Append(ev2, Lookup(lookup2))
                            IN IF lookup2 = NoExecutor
                               THEN [ executor |-> NoExecutor,
                                      events |-> Append(ev3, Ev("console.error", "no executor found")) ]
                               ELSE CheckPorts(lookup2, ev3)

\* str.upper() on the country codes and pod statuses of the model.
Upper(s) ==
    CASE s = "us" -> "US"
      [] s = "fr" -> "FR"
      [] s = "running" -> "RUNNING"
      [] OTHER -> s

_apply_executor_filters(execs, gpu_count, country_code, ports) ==
    LET CountOk(e) == ~ TruthyN(gpu_count) \/ e.gpu_count = gpu_count
        CountryOk(e) == ~ TruthyS(country_code)
                        \/ (e.country_code # None
                            /\ Upper(e.country_code) = Upper(country_code))
        PortsOk(e) == ~ TruthyN(ports)
                      \/ (TruthyN(e.available_port_count)
                          /\ e.available_port_count >= ports)
        Keep(e) == CountOk(e) /\ CountryOk(e) /\ PortsOk(e)
    IN SelectSeq(execs, Keep)

\* lium.ls(gpu_type=gpu): the catalog restricted to that GPU type.
ls(catalog, gpu_type) ==
    LET TypeOk(e) == ~ TruthyS(gpu_type) \/ e.gpu_type = gpu_type
    IN SelectSeq(catalog, TypeOk)

\* _auto_select_executor: [executor, events].
_auto_select_executor(w, gpu, count, country, ports) ==
    LET listed == ls(w.catalog, gpu)
        execs == _apply_executor_filters(listed, count, country, ports)
        pareto_flags == calculate_pareto_frontier(execs)
        IsPareto(i) == pareto_flags[i]
        pareto_idx == SelectSeq([ i \in 1..Len(execs) |-> i ], IsPareto)
        ev0 == << Call("lium.ls") >>
    IN IF execs = << >>
       THEN [ executor |-> NoExecutor,
              events |-> ev0 \o
                  (IF gpu # None /\ ~ w.gpu_known
                   THEN << Call("lium.gpu_types"),
                           Ev("console.error", "GPU not recognized") >>
                   ELSE IF gpu # None
                   THEN << Call("lium.gpu_types"),
                           Ev("console.error", "all matching GPUs rented out") >>
                   ELSE << Ev("console.error", "all matching GPUs rented out") >>) ]
       ELSE [ executor |-> IF pareto_idx # << >> THEN execs[pareto_idx[1]] ELSE execs[1],
              events |-> Append(ev0, Call("ls_store_executor")) ]

\* select_executor(lium, ports=ports): [executor, events]; the prompt only
\* accepts a number of a listed executor.
select_executor(w, ports) ==
    LET listed == ls(w.catalog, None)
        execs == _apply_executor_filters(listed, Absent, None, ports)
        ev0 == << Ev("console.warning", "Select executor:"), Call("lium.ls") >>
    IN IF execs = << >>
       THEN [ executor |-> NoExecutor,
              events |-> Append(ev0, Ev("console.error", "no executors available")) ]
       ELSE [ executor |-> execs[IF w.choice \in 1..Len(execs) THEN w.choice ELSE 1],
              events |-> Append(ev0, Call("Prompt.ask")) ]

\* ------------------------------------------------------------------------
\* Concrete actions (cli/core/actions): should_run, counts_as_step, execute
\* ------------------------------------------------------------------------

\* What execute did: result is "Continue" (True or None returned), "Stop"
\* (False returned) or "Raise" (err propagates out of execute).
Outcome(result, c, o, rep, events, err) ==
    [ result |-> result, ctx |-> c, opts |-> o, rep |-> rep,
      events |-> events, err |-> err ]

\* generate_huid: the human-friendly identifier of an id.
generate_huid(id) ==
    CASE id = "exec-a" -> "swift-hawk-a1"
      [] id = "exec-b" -> "calm-eagle-b2"
      [] id = "exec-c" -> "bold-lynx-c3"
      [] OTHER -> None

\* A call that goes to the API and raises when the API is unreachable.
IsApiCall(e) ==
    e.ev = "call" /\ e.arg \in { "lium.get_executor", "lium.ls",
                                 "ls_store_executor", "lium.gpu_types" }

ReachesApi(events) == \E i \in 1..Len(events) : IsApiCall(events[i])

\* The events when the first call that reaches the API raises.
UpToFirstApiCall(events) ==
    LET hits == { i \in 1..Len(events) : IsApiCall(events[i]) }
        first == CHOOSE i \in hits : \A j \in hits : i <= j
    IN IF hits = { } THEN events
       ELSE Append(SubSeq(events, 1, first - 1), CallRaised(events[first].arg))

\* ResolveExecutor.counts_as_step
ResolveExecutor_counts_as_step(o) ==
    o.executor_id # None \/ TruthyS(o.gpu) \/ TruthyN(o.count) \/ TruthyS(o.country)

\* ResolveExecutor.execute; w.api_raises: the first API call raises.
ResolveExecutor_execute(c, o, rep, w) ==
    LET byId == TruthyS(o.executor_id)
        byFilter == TruthyS(o.gpu) \/ TruthyN(o.count) \/ TruthyS(o.country)
        r == IF byId THEN _find_executor_by_id(w, o.executor_id, o.ports)
             ELSE IF byFilter
             THEN _auto_select_executor(w, o.gpu, o.count, o.country, o.ports)
             ELSE select_executor(w, o.ports)
        title == IF byId THEN "Finding executor" ELSE "Finding best executor"
        rep1 == IF byId \/ byFilter THEN step(rep) ELSE rep
        ev0 == IF byId \/ byFilter THEN << StepEvent(rep, title) >> ELSE << >>
    IN IF w.api_raises /\ ReachesApi(r.events)
       THEN Outcome("Raise", c, o, rep1, ev0 \o UpToFirstApiCall(r.events),
                    Error("lium api"))
       ELSE IF r.executor = NoExecutor
       THEN Outcome("Stop", c, o, rep1, ev0 \o r.events, NoError)
       ELSE Outcome("Continue", [ c EXCEPT !.executor = r.executor ], o, rep1,
                    IF byId THEN ev0 \o r.events
                    ELSE (ev0 \o r.events) \o << Ev("reporter.success", "Selected") >>,
                    NoError)

\* A confirmation that is asked for even under --yes.
ConfirmCreation_should_run_always(o) == TRUE

\* ConfirmCreation.should_run
ConfirmCreation_should_run(o) == ~ o.skip_confirm

\* The event of one Confirm.ask prompt: n is 1 when the user accepted, 0
\* when the user declined.
Asked(answer) == EvN("call", "Confirm.ask", IF answer THEN 1 ELSE 0)

\* ConfirmCreation.execute; answer: what Confirm.ask returns.
ConfirmCreation_execute(c, o, rep, answer) ==
    IF c.executor = NoExecutor
    THEN Outcome("Raise", c, o, rep, << >>, Error("AttributeError"))
    ELSE IF ~ answer
    THEN Outcome("Stop", c, o, rep,
                 << Asked(answer), Ev("reporter.warning", "Cancelled") >>,
                 NoError)
    ELSE Outcome("Continue", c, o, rep, << Asked(answer) >>, NoError)

\* CreateVolumeIfNeeded.should_run
CreateVolumeIfNeeded_should_run(o) == o.volume_create_params # None

\* CreateVolumeIfNeeded.execute; created: lium.volume_create returned.
CreateVolumeIfNeeded_execute(c, o, rep, created) ==
    LET ev0 == << StepEvent(rep, "Creating volume") >>
    IN IF ~ created
       THEN Outcome("Raise", c, o, step(rep),
                    Append(ev0, CallRaised("lium.volume_create")),
                    Error("lium.volume_create"))
       ELSE Outcome("Continue", [ c EXCEPT !.volume = "vol-new" ],
                    [ o EXCEPT !.volume_id = "vol-new" ], step(rep),
                    ev0 \o << Call("lium.volume_create"),
                               Ev("reporter.success", "Created volume") >>, NoError)

\* A provisioning call that is tried again when it raised.
UpCall_retried(up) ==
    [ events |-> IF up = "raise" THEN << CallRaised("lium.up"), Call("lium.up") >>
                 ELSE << Call("lium.up") >>,
      raises |-> FALSE ]

\* The provisioning call of RentPod.execute: the events of calling lium.up
\* and whether the error of the call leaves the action.
UpCall(up) ==
    [ events |-> IF up = "raise" THEN << CallRaised("lium.up") >> ELSE << Call("lium.up") >>,
      raises |-> up = "raise" ]

\* RentPod.execute; found: what the template lookup that applies returns
\* (get_template, select_template or default_docker_template), fallback:
\* what get_template(get_pytorch_template_id()) returns, up: the outcome of
\* lium.up ("id": a response with an id, "name": a response with only a
\* name, "empty": a response with neither, so that
\* pod_info.get('id') or pod_info.get('name', '') is '', "raise").
RentPod_execute(c, o, rep, found, fallback, up) ==
    LET executor == c.executor
        o1 == IF ~ TruthyS(o.name) THEN [ o EXCEPT !.name = generate_huid(executor.id) ] ELSE o
        template == IF o.interactive \/ TruthyS(o.template_id) THEN found
                    ELSE IF found # None THEN found ELSE fallback
        lookups == IF TruthyS(o.template_id) THEN << Call("lium.get_template") >>
                   ELSE IF o.interactive THEN << Call("select_template") >>
                   ELSE IF found # None THEN << Call("lium.default_docker_template") >>
                   ELSE << Call("lium.default_docker_template"),
                           Call("lium.get_template") >>
        c1 == [ c EXCEPT !.template = template ]
        ev1 == Append(lookups, StepEvent(rep, "Renting machine"))
    IN IF executor = NoExecutor /\ ~ TruthyS(o.name)
       THEN Outcome("Raise", c, o, rep, << >>, Error("AttributeError"))
       ELSE IF template = None /\ o.interactive
       THEN Outcome("Stop", c, o1, rep, lookups, NoError)
       ELSE IF template = None /\ TruthyS(o.template_id)
       THEN Outcome("Stop", c, o1, rep,
                    lookups \o ReporterError(rep, "Template not found"), NoError)
       ELSE IF template = None \/ executor = NoExecutor
       THEN Outcome("Raise", c1, o1, step(rep), ev1, Error("AttributeError"))
       ELSE IF UpCall(up).raises
       THEN Outcome("Raise", c1, o1, step(rep), ev1 \o UpCall(up).events,
                    Error("lium.up"))
       ELSE Outcome("Continue",
                    [ c1 EXCEPT !.pod_info = CASE up = "name" -> "response-with-name"
                                               [] up = "empty" -> "response-empty"
                                               [] OTHER -> "response-with-id",
                                !.pod_id = CASE up = "name" -> o1.name
                                             [] up = "empty" -> ""
                                             [] OTHER -> "pod-1" ],
                    o1, step(rep), ev1 \o UpCall(up).events, NoError)

\* WaitReady.execute; ready: wait_ready_no_timeout returned the pod (it
\* raises otherwise; a pod that never gets ready keeps the action waiting).
WaitReady_execute(c, o, rep, ready) ==
    LET ev0 == << StepEvent(rep, "Loading image") >>
    IN IF ~ ready
       THEN Outcome("Raise", c, o, step(rep),
                    Append(ev0, CallRaised("wait_ready_no_timeout")),
                    Error("wait_ready_no_timeout"))
       ELSE Outcome("Continue", [ c EXCEPT !.pod = "pod-ready" ], o, step(rep),
                    Append(ev0, Call("wait_ready_no_timeout")), NoError)

\* ScheduleTerminationIfNeeded.should_run
ScheduleTerminationIfNeeded_should_run(o) == o.termination_time # None

\* ScheduleTerminationIfNeeded.execute; scheduled: the call returned.
ScheduleTerminationIfNeeded_execute(c, o, rep, scheduled) ==
    LET ev0 == << StepEvent(rep, "Scheduling termination") >>
    IN IF ~ scheduled
       THEN Outcome("Raise", c, o, step(rep),
                    Append(ev0, CallRaised("lium.schedule_termination")),
                    Error("lium.schedule_termination"))
       ELSE Outcome("Continue", c, o, step(rep),
                    ev0 \o << Call("lium.schedule_termination"),
                               Ev("reporter.success", "Scheduled termination") >>,
                    NoError)

\* ConnectSSH.execute; connected: get_ssh_method_and_pod and ssh_to_pod
\* returned.
ConnectSSH_execute(c, o, rep, connected) ==
    LET ev0 == << StepEvent(rep, "Connecting SSH") >>
    IN IF ~ connected
       THEN Outcome("Raise", c, o, step(rep),
                    Append(ev0, CallRaised("get_ssh_method_and_pod")),
                    Error("get_ssh_method_and_pod"))
       ELSE Outcome("Continue", [ c EXCEPT !.ssh_cmd = "ssh-cmd", !.pod = "pod-ssh" ],
                    o, step(rep),
                    ev0 \o << Call("get_ssh_method_and_pod"),
                               Ev("reporter.success", "Pod ready"), Call("ssh_to_pod") >>,
                    NoError)

\* InstallJupyterIfNeeded.should_run
InstallJupyterIfNeeded_should_run(o) == o.jupyter

max_wait == 120

wait_interval == 3

\* The polling loop of InstallJupyterIfNeeded.execute: the first `pending`
\* polls report no final status, the next one reports `terminal` ("SUCCESS",
\* "FAILED", "raise": lium.ps raises, "PENDING": still no final status).
\* [polls, exit]: the number of polls made and how the loop was left.
RECURSIVE PollLoop(_, _, _, _)
PollLoop(elapsed, polls, pending, terminal) ==
    IF ~ (elapsed < max_wait) THEN [ polls |-> polls, exit |-> "timeout" ]
    ELSE IF polls + 1 <= pending \/ terminal = "PENDING"
    THEN PollLoop(elapsed + wait_interval, polls + 1, pending, terminal)
    ELSE [ polls |-> polls + 1, exit |-> terminal ]

\* InstallJupyterIfNeeded.execute; jw: the responses of the collaborators:
\* ps1 is the first pod listing ("raise", "missing": the pod is not listed,
\* "noports", "sshonly": only port 22, "ok"), install whether
\* lium.install_jupyter returned, pending/terminal the status polls, final
\* the last listing ("url", "nourl", "raise").
InstallJupyterIfNeeded_execute(c, o, rep, jw) ==
    LET listed == << Call("lium.ps") >>
        entered == Append(listed, StepEvent(rep, "Installing Jupyter"))
        installed == Append(entered, Call("lium.install_jupyter"))
        loop == PollLoop(0, 0, jw.pending, jw.terminal)
        polled == Append(installed, EvN("call", "lium.ps: poll", loop.polls))
        caught(events) == events \o ReporterError(rep, "Failed to install Jupyter Notebook")
    IN IF jw.ps1 = "raise"
       THEN Outcome("Raise", c, o, rep, << CallRaised("lium.ps") >>, Error("lium.ps"))
       ELSE IF jw.ps1 = "missing"
       THEN Outcome("Continue", c, o, rep,
                    listed \o ReporterError(rep, "Could not find pod"), NoError)
       ELSE IF jw.ps1 = "noports"
       THEN Outcome("Continue", c, o, rep,
                    listed \o ReporterError(rep, "No ports allocated"), NoError)
       ELSE IF jw.ps1 = "sshonly"
       THEN Outcome("Continue", c, o, rep,
                    listed \o ReporterError(rep, "No suitable ports"), NoError)
       ELSE IF ~ jw.install
       THEN Outcome("Continue", c, o, step(rep),
                    caught(Append(entered, CallRaised("lium.install_jupyter"))), NoError)
       ELSE IF loop.exit = "raise"
       THEN Outcome("Continue", c, o, step(rep),
                    caught(Append(polled, CallRaised("lium.ps: poll"))), NoError)
       ELSE IF loop.exit = "FAILED"
       THEN Outcome("Continue", c, o, step(rep),
                    polled \o ReporterError(rep, "Jupyter installation failed"), NoError)
       ELSE IF jw.final = "raise"
       THEN Outcome("Continue", c, o, step(rep),
                    caught(Append(polled, CallRaised("lium.ps: final"))), NoError)
       ELSE IF jw.final = "url"
       THEN Outcome("Continue", [ c EXCEPT !.jupyter_url = "jupyter-url" ], o, step(rep),
                    Append(polled, Call("lium.ps: final")), NoError)
       ELSE Outcome("Continue", c, o, step(rep),
                    polled \o << Call("lium.ps: final"),
                                 Ev("reporter.warning", "Jupyter installation timed out") >>,
                    NoError)

\* ------------------------------------------------------------------------
\* State
\* ------------------------------------------------------------------------
VARIABLES
    executors,      \* calculate_pareto_frontier: the input list
    is_pareto,      \* calculate_pareto_frontier: the returned flags
    selectorPc,     \* "input" before the call, "done" after it returned
    opts,           \* ctx.opts, the UpOptions of the run
    ctx,            \* the mutable slots of the UpContext
    reporter,       \* ctx.reporter: its kind and step counters
    actions,        \* the action list the running runner was given
    runner,         \* "none", "run_preflight_phase" or "run_pipeline"
    pos,            \* index in actions of the loop's current action
    status,         \* "idle", "running", "returned" or "raised"
    retval,         \* what the runner returned: "None", "True", "False"
    raised,         \* the error that propagated out of the runner
    trace,          \* the events so far, in order
    runStart,       \* the length of trace when the running runner was called
    opts0,          \* the value of ctx.opts when the running runner was called
    pods,           \* exec_all: what the command does on each target, in order
    max_workers,    \* exec_all: the max_workers argument
    execAllPc,      \* exec_all: "call", "running", "returned" or "raised"
    queue,          \* exec_all: index of the next target no worker has taken
    running,        \* exec_all: per worker thread, the target it runs (0: idle)
    results,        \* exec_all: per target, the result of exec_single (or pending)
    started,        \* exec_all: per target, how often its command was started
    waitPc,         \* wait: "idle", "test", "poll", "sleep", "returned" or "raised"
    waitFn,         \* wait: "wait_ready" or "wait_ready_no_timeout"
    wait_pod_id,    \* wait: the id of the awaited pod
    timeout,        \* wait_ready: the timeout argument, in seconds
    poll_interval,  \* wait_ready: the poll_interval argument, in seconds
    elapsed,        \* wait_ready: time.time() - start
    polls,          \* wait: the calls of self.ps() so far (up to MaxPolls)
    fresh_pods,     \* wait: the listing of the last poll
    waitRet,        \* wait: the pod returned (NoPod: None)
    podFate,        \* wait: whether the awaited pod can ever be seen ready
    utilFn,         \* utils: "loading_status" or "handle_errors"
    utilPc,         \* utils: where the call is ("call", ..., "left")
    block,          \* utils: what the with block or the wrapped function does
    message,        \* loading_status: the message argument
    success_message, \* loading_status: the success_message argument
    console_calls,  \* utils: the calls made on console and on the Status
    spinner,        \* loading_status: "none", "started" or "stopped"
    in_flight,      \* utils: the exception being handled or propagating
    utilOutcome,    \* utils: the value returned or the exception that left
    jupPending,     \* Jupyter polling: how many polls report no final status first
    jupTerminal,    \* Jupyter polling: what the polls report after those
    jupPc,          \* Jupyter polling: "test", "body" or "done"
    jupElapsed,     \* Jupyter polling: the local variable elapsed
    jupPolls,       \* Jupyter polling: the polls made so far
    jupSeen,        \* Jupyter polling: the status the last poll reported
    jupExit         \* Jupyter polling: how the loop was left

selectorVars == << executors, is_pareto, selectorPc >>

pipelineVars ==
    << opts, ctx, reporter, actions, runner, pos, status, retval, raised, trace,
       runStart, opts0 >>

execAllVars == << pods, max_workers, execAllPc, queue, running, results, started >>

waitVars ==
    << waitPc, waitFn, wait_pod_id, timeout, poll_interval, elapsed, polls, fresh_pods,
       waitRet, podFate >>

utilVars ==
    << utilFn, utilPc, block, message, success_message, console_calls, spinner,
       in_flight, utilOutcome >>

jupyterVars ==
    << jupPending, jupTerminal, jupPc, jupElapsed, jupPolls, jupSeen, jupExit >>

vars == << selectorVars, pipelineVars, execAllVars, waitVars, utilVars, jupyterVars >>

\* ------------------------------------------------------------------------
\* Pipeline runner (cli/core/pipeline.py)
\* ------------------------------------------------------------------------

\* action.should_run(ctx); BaseAction.should_run returns True.
should_run(name, o) ==
    CASE name = "ConfirmCreation" -> ConfirmCreation_should_run(o)
      [] name = "CreateVolumeIfNeeded" -> CreateVolumeIfNeeded_should_run(o)
      [] name = "InstallJupyterIfNeeded" -> InstallJupyterIfNeeded_should_run(o)
      [] name = "ScheduleTerminationIfNeeded" -> ScheduleTerminationIfNeeded_should_run(o)
      [] OTHER -> TRUE

\* action.counts_as_step(ctx); BaseAction.counts_as_step returns True.
counts_as_step(name, o) ==
    CASE name = "ResolveExecutor" -> ResolveExecutor_counts_as_step(o)
      [] name = "ConfirmCreation" -> FALSE
      [] OTHER -> TRUE

\* A count that forgets counts_as_step.
total_steps_allRunning(list, o) ==
    Cardinality({ i \in 1..Len(list) : should_run(list[i], o) })

\* sum(1 for action in actions if should_run and counts_as_step)
total_steps(list, o) ==
    Cardinality({ i \in 1..Len(list) : should_run(list[i], o) /\ counts_as_step(list[i], o) })

\* The order in which the actions of the up command are declared.
CanonicalSequence ==
    << "ResolveExecutor", "ConfirmCreation", "CreateVolumeIfNeeded", "RentPod",
       "WaitReady", "InstallJupyterIfNeeded", "ScheduleTerminationIfNeeded",
       "ConnectSSH" >>

\* The list run_preflight_phase is called with: executor resolution.
PreflightActions == SubSeq(CanonicalSequence, 1, 1)

\* The actions left for run_pipeline when the pre-flight phase has run.
AfterPreflight == SubSeq(CanonicalSequence, 2, Len(CanonicalSequence))

\* run_preflight_phase(ctx, actions) is called.
RunPreflightPhase(list) ==
    /\ status = "idle"
    /\ actions' = list
    /\ runner' = "run_preflight_phase"
    /\ pos' = 1
    /\ status' = "running"
    /\ runStart' = Len(trace)
    /\ opts0' = opts
    /\ UNCHANGED << opts, ctx, reporter, retval, raised, trace, selectorVars, execAllVars,
                    waitVars, utilVars, jupyterVars >>

\* run_pipeline(ctx, actions) is called, on a fresh Context or after a
\* pre-flight phase that returned True: total_steps is computed and
\* reported before the loop starts.
RunPipeline(list) ==
    /\ \/ status = "idle"
       \/ runner = "run_preflight_phase" /\ status = "returned" /\ retval = "True"
    /\ actions' = list
    /\ reporter' = set_total_steps(reporter, total_steps(list, opts))
    /\ trace' = Append(trace, EvN("set_total_steps", "", total_steps(list, opts)))
    /\ runner' = "run_pipeline"
    /\ pos' = 1
    /\ status' = "running"
    /\ retval' = None
    /\ runStart' = Len(trace)
    /\ opts0' = opts
    /\ UNCHANGED << opts, ctx, raised, selectorVars, execAllVars, waitVars, utilVars,
                    jupyterVars >>

\* The loop reaches an action whose should_run is false: continue.
SkipAction ==
    /\ status = "running"
    /\ pos \in 1..Len(actions)
    /\ ~ should_run(actions[pos], opts)
    /\ pos' = pos + 1
    /\ UNCHANGED << opts, ctx, reporter, actions, runner, status, retval, raised,
                    trace, runStart, opts0, selectorVars, execAllVars, waitVars, utilVars,
                    jupyterVars >>

\* An except clause whose message leaves out the class of the action.
FailureMessage_anonymous(name) == "Pre-flight failed"

\* The message of the runner's except clause: run_pipeline names the class
\* of the action, run_preflight_phase does not.
FailureMessage(name) ==
    IF runner = "run_pipeline" THEN name ELSE "Pre-flight failed"

\* The error the runner's except clause lets propagate: a bare raise.
Reraise(err, name) == err

\* A loop that ignores a False result.
StatusAfter_ignoresFalse(result) ==
    IF result = "Raise" THEN "raised" ELSE "running"

\* What the loop does with the result of execute: go on with the next
\* action, return (result is False), or let the error propagate.
StatusAfter(result) ==
    CASE result = "Continue" -> "running"
      [] result = "Stop" -> "returned"
      [] result = "Raise" -> "raised"

\* The mutable slots of UpContext, in the order of __init__.
ContextSlots ==
    << "executor", "template", "volume", "pod_info", "pod_id", "pod", "ssh_cmd",
       "jupyter_url" >>

\* The assignments execute made to Context slots: one event per slot that
\* holds another value than before, with the position of the action.
SlotWrites(before, after, at) ==
    LET Written(slot) == before[slot] # after[slot]
        slots == SelectSeq(ContextSlots, Written)
    IN [ i \in 1..Len(slots) |-> EvN("write", slots[i], at) ]

\* The loop body for the action at pos whose execute did `out`.
Executed(name, out) ==
    /\ ctx' = out.ctx
    /\ opts' = out.opts
    /\ reporter' = out.rep
    /\ trace' = (Append(trace, EvN("execute", name, pos)) \o out.events)
                  \o SlotWrites(ctx, out.ctx, pos)
                  \o (IF out.result = "Raise"
                      THEN Append(ReporterError(out.rep, FailureMessage(name)),
                                  EvN("Raise", name, pos))
                      ELSE << EvN(out.result, name, pos) >>)
    /\ pos' = IF StatusAfter(out.result) = "running" THEN pos + 1 ELSE pos
    /\ status' = StatusAfter(out.result)
    /\ retval' = IF out.result = "Stop" /\ runner = "run_preflight_phase"
                 THEN "False" ELSE retval
    /\ raised' = IF out.result = "Raise" THEN Reraise(out.err, name) ELSE raised
    /\ UNCHANGED << actions, runner, runStart, opts0, selectorVars, execAllVars, waitVars,
                    utilVars, jupyterVars >>

\* A loop without the should_run test.
AtAction_ungated(name) ==
    /\ status = "running"
    /\ pos \in 1..Len(actions)
    /\ actions[pos] = name

\* The loop is at an action that runs.
AtAction(name) ==
    /\ status = "running"
    /\ pos \in 1..Len(actions)
    /\ actions[pos] = name
    /\ should_run(name, opts)

ExecResolveExecutor(worlds) ==
    /\ AtAction("ResolveExecutor")
    /\ \E w \in worlds :
         Executed("ResolveExecutor", ResolveExecutor_execute(ctx, opts, reporter, w))

ExecConfirmCreation ==
    /\ AtAction("ConfirmCreation")
    /\ \E answer \in BOOLEAN :
         Executed("ConfirmCreation", ConfirmCreation_execute(ctx, opts, reporter, answer))

ExecCreateVolumeIfNeeded ==
    /\ AtAction("CreateVolumeIfNeeded")
    /\ \E created \in BOOLEAN :
         Executed("CreateVolumeIfNeeded",
                  CreateVolumeIfNeeded_execute(ctx, opts, reporter, created))

ExecRentPod ==
    /\ AtAction("RentPod")
    /\ \E found \in { None, "tpl-found" }, fallback \in { None, "tpl-pytorch" },
          up \in { "id", "name", "empty", "raise" } :
         Executed("RentPod", RentPod_execute(ctx, opts, reporter, found, fallback, up))

ExecWaitReady ==
    /\ AtAction("WaitReady")
    /\ \E ready \in BOOLEAN :
         Executed("WaitReady", WaitReady_execute(ctx, opts, reporter, ready))

ExecInstallJupyterIfNeeded(worlds) ==
    /\ AtAction("InstallJupyterIfNeeded")
    /\ \E jw \in worlds :
         Executed("InstallJupyterIfNeeded",
                  InstallJupyterIfNeeded_execute(ctx, opts, reporter, jw))

ExecScheduleTerminationIfNeeded ==
    /\ AtAction("ScheduleTerminationIfNeeded")
    /\ \E scheduled \in BOOLEAN :
         Executed("ScheduleTerminationIfNeeded",
                  ScheduleTerminationIfNeeded_execute(ctx, opts, reporter, scheduled))

ExecConnectSSH ==
    /\ AtAction("ConnectSSH")
    /\ \E connected \in BOOLEAN :
         Executed("ConnectSSH", ConnectSSH_execute(ctx, opts, reporter, connected))

\* The loop is past the last action: run_preflight_phase returns True,
\* run_pipeline returns None.
RunnerReturns ==
    /\ status = "running"
    /\ pos = Len(actions) + 1
    /\ status' = "returned"
    /\ retval' = IF runner = "run_preflight_phase" THEN "True" ELSE None
    /\ UNCHANGED << opts, ctx, reporter, actions, runner, pos, raised, trace,
                    runStart, opts0, selectorVars, execAllVars, waitVars, utilVars,
                    jupyterVars >>

\* ------------------------------------------------------------------------
\* Lium.exec_all (lium/sdk/client.py): bounded fan-out of one command
\* ------------------------------------------------------------------------

\* What Lium.exec does on a target: "ok" (exit code 0), "fail" (another exit
\* code), "raise" (no SSH key, connection refused, ...).
ExecOutcomes == { "ok", "fail", "raise" }

Pending == [ done |-> FALSE, success |-> FALSE, error |-> FALSE ]

\* exec_single(pod): the dict of Lium.exec with its success flag, or the
\* error dict of the except clause.
exec_single(outcome) ==
    CASE outcome = "ok" -> [ done |-> TRUE, success |-> TRUE, error |-> FALSE ]
      [] outcome = "fail" -> [ done |-> TRUE, success |-> FALSE, error |-> FALSE ]
      [] outcome = "raise" -> [ done |-> TRUE, success |-> FALSE, error |-> TRUE ]

Min(a, b) == IF a <= b THEN a ELSE b

\* The max_workers ThreadPoolExecutor is built with.
PoolSize == Min(max_workers, Len(pods))

\* exec_all is entered: ThreadPoolExecutor(max_workers=PoolSize) raises
\* ValueError unless PoolSize > 0; otherwise map() queues one task per pod.
ExecAllCall ==
    /\ execAllPc = "call"
    /\ execAllPc' = IF PoolSize > 0 THEN "running" ELSE "raised"
    /\ UNCHANGED << pods, max_workers, queue, running, results, started,
                    selectorVars, pipelineVars, waitVars, utilVars, jupyterVars >>

\* A pool that hands out no further task once some task has failed.
WorkerStarts_abortsAfterFailure(w) ==
    /\ execAllPc = "running"
    /\ w \in 1..PoolSize
    /\ running[w] = 0
    /\ queue <= Len(pods)
    /\ \A i \in 1..Len(pods) : results[i].done => results[i].success
    /\ running' = [ running EXCEPT ![w] = queue ]
    /\ started' = [ started EXCEPT ![queue] = @ + 1 ]
    /\ queue' = queue + 1
    /\ UNCHANGED << pods, max_workers, execAllPc, results, selectorVars, pipelineVars,
                    waitVars, utilVars, jupyterVars >>

\* An idle worker thread takes the next queued task and starts exec_single.
WorkerStarts(w) ==
    /\ execAllPc = "running"
    /\ w \in 1..PoolSize
    /\ running[w] = 0
    /\ queue <= Len(pods)
    /\ running' = [ running EXCEPT ![w] = queue ]
    /\ started' = [ started EXCEPT ![queue] = @ + 1 ]
    /\ queue' = queue + 1
    /\ UNCHANGED << pods, max_workers, execAllPc, results, selectorVars, pipelineVars,
                    waitVars, utilVars, jupyterVars >>

\* exec_single returns in a worker: its future holds the result.
WorkerFinishes(w) ==
    /\ execAllPc = "running"
    /\ w \in 1..PoolSize
    /\ running[w] # 0
    /\ results' = [ results EXCEPT ![running[w]] = exec_single(pods[running[w]]) ]
    /\ running' = [ running EXCEPT ![w] = 0 ]
    /\ UNCHANGED << pods, max_workers, execAllPc, queue, started, selectorVars,
                    pipelineVars, waitVars, utilVars, jupyterVars >>

\* list(executor.map(...)) has every result, in the order of pods, and the
\* pool is shut down: exec_all returns the list.
ExecAllReturns ==
    /\ execAllPc = "running"
    /\ \A i \in 1..Len(pods) : results[i].done
    /\ execAllPc' = "returned"
    /\ UNCHANGED << pods, max_workers, queue, running, results, started,
                    selectorVars, pipelineVars, waitVars, utilVars, jupyterVars >>

ExecAllIdle ==
    /\ pods = << >>
    /\ max_workers = 0
    /\ execAllPc = "idle"
    /\ queue = 1
    /\ running = << >>
    /\ results = << >>
    /\ started = << >>

\* ------------------------------------------------------------------------
\* Waiting for a pod: Lium.wait_ready (lium/sdk/client.py) and the
\* wait_ready_no_timeout of cli/utils the up command's WaitReady calls
\* ------------------------------------------------------------------------

\* `current` when no pod of the listing has the requested id, and the
\* value wait_ready returns when it gives up (None).
NoPod == [ id |-> None, status |-> None, ssh_cmd |-> None ]

PodSeen(id, st, ssh) == [ id |-> id, status |-> st, ssh_cmd |-> ssh ]

\* What self.ps() can list while a pod is awaited: nothing, another pod
\* that is ready, the awaited pod pending, running without SSH command
\* (None or an empty string), or running (in either case of the status
\* text) with one, alone or after another pod.
WaitListings(id) ==
    { << >>,
      << PodSeen("pod-other", "RUNNING", "ssh other") >>,
      << PodSeen(id, "PENDING", None) >>,
      << PodSeen(id, "RUNNING", None) >>,
      << PodSeen(id, "RUNNING", "") >>,
      << PodSeen(id, "running", "ssh pod") >>,
      << PodSeen("pod-other", "PENDING", None), PodSeen(id, "RUNNING", "ssh pod") >> }

\* next((p for p in fresh_pods if p.id == pod_id), None)
Current(listing, id) ==
    LET Wanted(p) == p.id = id
        found == SelectSeq(listing, Wanted)
    IN IF found = << >> THEN NoPod ELSE found[1]

\* current and current.status.upper() == "RUNNING" and current.ssh_cmd
IsReady(current) ==
    /\ current # NoPod
    /\ Upper(current.status) = "RUNNING"
    /\ TruthyS(current.ssh_cmd)

\* A loop condition that still polls when the timeout has just elapsed.
KeepsWaiting_inclusive(el, to) == el <= to

\* The loop condition of wait_ready: time.time() - start < timeout.
KeepsWaiting(el, to) == el < to

\* The loop condition is evaluated: the loop body is entered, or the loop
\* ends and None is returned.
WaitTest ==
    /\ waitFn = "wait_ready"
    /\ waitPc = "test"
    /\ IF KeepsWaiting(elapsed, timeout)
       THEN /\ waitPc' = "poll"
            /\ waitRet' = waitRet
       ELSE /\ waitPc' = "returned"
            /\ waitRet' = NoPod
    /\ UNCHANGED << waitFn, wait_pod_id, timeout, poll_interval, elapsed, polls,
                    fresh_pods, podFate, selectorVars, pipelineVars, execAllVars,
                    utilVars, jupyterVars >>

\* self.ps() raises: the error leaves wait_ready.
WaitPollRaises ==
    /\ waitFn = "wait_ready"
    /\ waitPc = "poll"
    /\ waitPc' = "raised"
    /\ polls' = Min(polls + 1, MaxPolls)
    /\ UNCHANGED << waitFn, wait_pod_id, timeout, poll_interval, elapsed, fresh_pods,
                    waitRet, podFate, selectorVars, pipelineVars, execAllVars, utilVars,
                    jupyterVars >>

\* self.ps() returns a listing after `took` seconds: the awaited pod is
\* returned if the listing shows it ready, otherwise the loop sleeps.
WaitPoll ==
    /\ waitFn = "wait_ready"
    /\ waitPc = "poll"
    /\ \E listing \in WaitListings(wait_pod_id), took \in { 0, 1 } :
         /\ podFate = "never ready" => ~ IsReady(Current(listing, wait_pod_id))
         /\ fresh_pods' = listing
         /\ elapsed' = elapsed + took
         /\ IF IsReady(Current(listing, wait_pod_id))
            THEN /\ waitPc' = "returned"
                 /\ waitRet' = Current(listing, wait_pod_id)
            ELSE /\ waitPc' = "sleep"
                 /\ waitRet' = waitRet
    /\ polls' = Min(polls + 1, MaxPolls)
    /\ UNCHANGED << waitFn, wait_pod_id, timeout, poll_interval, podFate,
                    selectorVars, pipelineVars, execAllVars, utilVars, jupyterVars >>

\* time.sleep(poll_interval)
WaitSleep ==
    /\ waitFn = "wait_ready"
    /\ waitPc = "sleep"
    /\ waitPc' = "test"
    /\ elapsed' = elapsed + poll_interval
    /\ UNCHANGED << waitFn, wait_pod_id, timeout, poll_interval, polls, fresh_pods,
                    waitRet, podFate, selectorVars, pipelineVars, execAllVars, utilVars,
                    jupyterVars >>

\* wait_ready_no_timeout, the unbounded variant: it loops until the pod is
\* ready and reads no clock. A poll that raises ends it with the error.
NoTimeoutPollRaises ==
    /\ waitFn = "wait_ready_no_timeout"
    /\ waitPc = "poll"
    /\ waitPc' = "raised"
    /\ polls' = Min(polls + 1, MaxPolls)
    /\ UNCHANGED << waitFn, wait_pod_id, timeout, poll_interval, elapsed, fresh_pods,
                    waitRet, podFate, selectorVars, pipelineVars, execAllVars, utilVars,
                    jupyterVars >>

\* A poll of the unbounded variant returns a listing: the awaited pod is
\* returned if it is ready, otherwise the loop sleeps.
NoTimeoutPoll ==
    /\ waitFn = "wait_ready_no_timeout"
    /\ waitPc = "poll"
    /\ \E listing \in WaitListings(wait_pod_id) :
         /\ podFate = "never ready" => ~ IsReady(Current(listing, wait_pod_id))
         /\ fresh_pods' = listing
         /\ IF IsReady(Current(listing, wait_pod_id))
            THEN /\ waitPc' = "returned"
                 /\ waitRet' = Current(listing, wait_pod_id)
            ELSE /\ waitPc' = "sleep"
                 /\ waitRet' = waitRet
    /\ polls' = Min(polls + 1, MaxPolls)
    /\ UNCHANGED << waitFn, wait_pod_id, timeout, poll_interval, elapsed, podFate,
                    selectorVars, pipelineVars, execAllVars, utilVars, jupyterVars >>

\* The sleep of the unbounded variant ends: the next poll follows.
NoTimeoutSleep ==
    /\ waitFn = "wait_ready_no_timeout"
    /\ waitPc = "sleep"
    /\ waitPc' = "poll"
    /\ UNCHANGED << waitFn, wait_pod_id, timeout, poll_interval, elapsed, polls,
                    fresh_pods, waitRet, podFate, selectorVars, pipelineVars,
                    execAllVars, utilVars, jupyterVars >>

WaitIdle ==
    /\ waitPc = "idle"
    /\ waitFn = None
    /\ wait_pod_id = None
    /\ timeout = 0
    /\ poll_interval = 0
    /\ elapsed = 0
    /\ polls = 0
    /\ fresh_pods = << >>
    /\ waitRet = NoPod
    /\ podFate = "none"


\* ------------------------------------------------------------------------
\* cli/utils.py: the loading_status context manager and the handle_errors
\* decorator
\* ------------------------------------------------------------------------

\* No exception in flight.
NoExc == [ kind |-> None, msg |-> None, value |-> None ]

\* What the wrapped function or the block of the with statement does: it
\* returns a value, or raises an exception of some class with a message.
Returns(v) == [ kind |-> "return", msg |-> None, value |-> v ]

Raises(kind, msg) == [ kind |-> kind, msg |-> msg, value |-> None ]

IsLiumError(b) == b.kind = "LiumError"

\* isinstance(e, Exception); LiumError derives from Exception.
\* except Exception: KeyboardInterrupt is a BaseException only.
IsException(b) == b.kind \notin { "return", None, "KeyboardInterrupt" }

\* loading_status: Status(...) is built and started.
LoadingStatusEnter ==
    /\ utilFn = "loading_status"
    /\ utilPc = "call"
    /\ spinner' = "started"
    /\ console_calls' = Append(console_calls, Ev("status.start", message))
    /\ utilPc' = "yield"
    /\ UNCHANGED << utilFn, block, message, success_message, in_flight, utilOutcome,
                    selectorVars, pipelineVars, execAllVars, waitVars, jupyterVars >>

\* The block of the with statement runs at the yield: it completes, or its
\* exception is thrown into the generator, where `except Exception` sees
\* it unless it is a BaseException only.
LoadingStatusBlock ==
    /\ utilFn = "loading_status"
    /\ utilPc = "yield"
    /\ in_flight' = IF block.kind = "return" THEN NoExc ELSE block
    /\ utilPc' = IF block.kind = "return" THEN "after yield"
                 ELSE IF IsException(block) THEN "except" ELSE "finally"
    /\ UNCHANGED << utilFn, block, message, success_message, console_calls, spinner,
                    utilOutcome, selectorVars, pipelineVars, execAllVars, waitVars,
                    jupyterVars >>

\* if success_message: console.print(...)
LoadingStatusSuccess ==
    /\ utilFn = "loading_status"
    /\ utilPc = "after yield"
    /\ console_calls' = IF TruthyS(success_message)
                        THEN Append(console_calls, Ev("console.print ok", success_message))
                        ELSE console_calls
    /\ utilPc' = "finally"
    /\ UNCHANGED << utilFn, block, message, success_message, spinner, in_flight,
                    utilOutcome, selectorVars, pipelineVars, execAllVars, waitVars,
                    jupyterVars >>

\* A handler that prints the failure and does not raise again.
LoadingStatusExcept_swallows ==
    /\ utilFn = "loading_status"
    /\ utilPc = "except"
    /\ console_calls' = Append(console_calls, Ev("console.print failed", in_flight.msg))
    /\ in_flight' = NoExc
    /\ utilPc' = "finally"
    /\ UNCHANGED << utilFn, block, message, success_message, spinner, utilOutcome,
                    selectorVars, pipelineVars, execAllVars, waitVars, jupyterVars >>

\* except Exception as e: console.print(Failed: e); raise
LoadingStatusExcept ==
    /\ utilFn = "loading_status"
    /\ utilPc = "except"
    /\ console_calls' = Append(console_calls, Ev("console.print failed", in_flight.msg))
    /\ utilPc' = "finally"
    /\ UNCHANGED << utilFn, block, message, success_message, spinner, in_flight,
                    utilOutcome, selectorVars, pipelineVars, execAllVars, waitVars,
                    jupyterVars >>

\* finally: status.stop(); then the with statement is left, normally or
\* with the exception in flight.
LoadingStatusFinally ==
    /\ utilFn = "loading_status"
    /\ utilPc = "finally"
    /\ spinner' = "stopped"
    /\ console_calls' = Append(console_calls, Ev("status.stop", message))
    /\ utilPc' = "left"
    /\ utilOutcome' = IF in_flight = NoExc THEN Returns(None) ELSE in_flight
    /\ UNCHANGED << utilFn, block, message, success_message, in_flight,
                    selectorVars, pipelineVars, execAllVars, waitVars, jupyterVars >>

\* handle_errors: wrapper calls func; its value is returned, its exception
\* goes to the first except clause that matches, or out of the wrapper.
HandleErrorsCall ==
    /\ utilFn = "handle_errors"
    /\ utilPc = "call"
    /\ in_flight' = IF block.kind = "return" THEN NoExc ELSE block
    /\ utilPc' = IF block.kind = "return" THEN "left"
                 ELSE IF IsLiumError(block) THEN "except LiumError"
                 ELSE IF IsException(block) THEN "except Exception"
                 ELSE "left"
    /\ utilOutcome' = IF block.kind = "return" \/ ~ IsException(block) THEN block ELSE utilOutcome
    /\ UNCHANGED << utilFn, block, message, success_message, console_calls, spinner,
                    selectorVars, pipelineVars, execAllVars, waitVars, jupyterVars >>

\* except LiumError as e: console.print("Error: ..."); the wrapper then
\* returns None.
HandleErrorsLiumError ==
    /\ utilFn = "handle_errors"
    /\ utilPc = "except LiumError"
    /\ console_calls' = Append(console_calls, Ev("console.print Error", in_flight.msg))
    /\ in_flight' = NoExc
    /\ utilPc' = "left"
    /\ utilOutcome' = Returns(None)
    /\ UNCHANGED << utilFn, block, message, success_message, spinner,
                    selectorVars, pipelineVars, execAllVars, waitVars, jupyterVars >>

\* except Exception as e: console.print("Unexpected error: ...")
HandleErrorsException ==
    /\ utilFn = "handle_errors"
    /\ utilPc = "except Exception"
    /\ console_calls' = Append(console_calls,
                               Ev("console.print Unexpected error", in_flight.msg))
    /\ in_flight' = NoExc
    /\ utilPc' = "left"
    /\ utilOutcome' = Returns(None)
    /\ UNCHANGED << utilFn, block, message, success_message, spinner,
                    selectorVars, pipelineVars, execAllVars, waitVars, jupyterVars >>

UtilsIdle ==
    /\ utilFn = None
    /\ utilPc = "idle"
    /\ block = NoExc
    /\ message = None
    /\ success_message = None
    /\ console_calls = << >>
    /\ spinner = "none"
    /\ in_flight = NoExc
    /\ utilOutcome = NoExc


\* ------------------------------------------------------------------------
\* The status polling of InstallJupyterIfNeeded.execute, iteration by
\* iteration
\* ------------------------------------------------------------------------

\* What the poll number k reports: no final status for the first
\* jupPending polls, then jupTerminal.
PollReports(k) ==
    IF k <= jupPending \/ jupTerminal = "PENDING" THEN "PENDING" ELSE jupTerminal

\* A loop test that lets the loop run once more at elapsed = max_wait.
JupyterLoopTest_inclusive ==
    /\ jupPc = "test"
    /\ IF jupElapsed <= max_wait
       THEN jupPc' = "body" /\ jupExit' = jupExit
       ELSE jupPc' = "done" /\ jupExit' = "timeout"
    /\ UNCHANGED << jupPending, jupTerminal, jupElapsed, jupPolls, jupSeen,
                    selectorVars, pipelineVars, execAllVars, waitVars, utilVars >>

\* while elapsed < max_wait
JupyterLoopTest ==
    /\ jupPc = "test"
    /\ IF jupElapsed < max_wait
       THEN jupPc' = "body" /\ jupExit' = jupExit
       ELSE jupPc' = "done" /\ jupExit' = "timeout"
    /\ UNCHANGED << jupPending, jupTerminal, jupElapsed, jupPolls, jupSeen,
                    selectorVars, pipelineVars, execAllVars, waitVars, utilVars >>

\* The loop body: sleep, count the interval, list the pods and look at the
\* installation status of the pod: SUCCESS breaks the loop, FAILED returns,
\* an error of lium.ps leaves the loop, anything else goes back to the test.
JupyterPoll ==
    /\ jupPc = "body"
    /\ jupElapsed' = jupElapsed + wait_interval
    /\ jupPolls' = jupPolls + 1
    /\ jupSeen' = PollReports(jupPolls + 1)
    /\ IF PollReports(jupPolls + 1) = "PENDING"
       THEN jupPc' = "test" /\ jupExit' = jupExit
       ELSE jupPc' = "done" /\ jupExit' = PollReports(jupPolls + 1)
    /\ UNCHANGED << jupPending, jupTerminal,
                    selectorVars, pipelineVars, execAllVars, waitVars, utilVars >>

JupyterIdle ==
    /\ jupPending = 0
    /\ jupTerminal = None
    /\ jupPc = "idle"
    /\ jupElapsed = 0
    /\ jupPolls = 0
    /\ jupSeen = None
    /\ jupExit = None


PipelineIdle ==
    /\ opts = [ executor_id |-> None, gpu |-> None, count |-> Absent, country |-> None,
                ports |-> Absent, name |-> None, template_id |-> None,
                volume_id |-> None, volume_create_params |-> None,
                skip_confirm |-> FALSE, interactive |-> FALSE,
                termination_time |-> None, jupyter |-> FALSE ]
    /\ ctx = NewContext
    /\ reporter = NewReporter("NullReporter")
    /\ actions = << >>
    /\ runner = "none"
    /\ pos = 0
    /\ status = "done"
    /\ retval = None
    /\ raised = NoError
    /\ trace = << >>
    /\ runStart = 0
    /\ opts0 = opts

\* ------------------------------------------------------------------------
\* Specification of the Selector: the function applied to bounded inputs
\* ------------------------------------------------------------------------
PriceValues == { Absent, 0, 1, 2 }

CapacityValues == { 40 * MiBPerGB, 80 * MiBPerGB }

RamValues == { Absent, KBPerGB }

\* Executors of the Selector inputs: price, GPU memory and RAM vary, the
\* other fields are those of a fresh record.
SelectorExecutors ==
    { [ NoExecutor EXCEPT !.price_per_gpu_hour = p, !.capacity = cap, !.ram_total = ram ] :
        p \in PriceValues, cap \in CapacityValues, ram \in RamValues }

RECURSIVE SeqsUpTo(_, _)
SeqsUpTo(S, n) ==
    IF n = 0 THEN { << >> }
    ELSE LET shorter == SeqsUpTo(S, n - 1)
         IN shorter \cup { Append(q, x) : q \in { r \in shorter : Len(r) = n - 1 }, x \in S }

SelectorIdle ==
    /\ executors = << >>
    /\ is_pareto = << >>
    /\ selectorPc = "idle"

SelectorInit ==
    /\ executors \in SeqsUpTo(SelectorExecutors, MaxCandidates)
    /\ is_pareto = << >>
    /\ selectorPc = "input"
    /\ PipelineIdle
    /\ ExecAllIdle
    /\ WaitIdle
    /\ UtilsIdle
    /\ JupyterIdle

CalculateParetoFrontier ==
    /\ selectorPc = "input"
    /\ is_pareto' = calculate_pareto_frontier(executors)
    /\ selectorPc' = "done"
    /\ UNCHANGED << executors, pipelineVars, execAllVars, waitVars, utilVars, jupyterVars >>

\* _auto_select_executor is called with no filter on a catalog that lists
\* `executors`: the candidate list is the whole catalog and the selected
\* executor is kept in ctx.executor, as ResolveExecutor keeps it.
AutoSelectExecutor ==
    /\ selectorPc = "input"
    /\ LET w == [ store |-> << >>, catalog |-> executors, refreshed |-> executors,
                  gpu_known |-> TRUE, choice |-> 1, api_raises |-> FALSE ]
           r == _auto_select_executor(w, None, Absent, None, Absent)
       IN /\ ctx' = [ ctx EXCEPT !.executor = r.executor ]
          /\ trace' = trace \o r.events
    /\ selectorPc' = "selected"
    /\ UNCHANGED << executors, is_pareto, opts, reporter, actions, runner, pos, status,
                    retval, raised, runStart, opts0, execAllVars, waitVars, utilVars,
                    jupyterVars >>

SelectorNext ==
    \/ CalculateParetoFrontier
    \/ AutoSelectExecutor

SpecSelector == SelectorInit /\ [][SelectorNext]_vars

\* ------------------------------------------------------------------------
\* Specification of the pipeline: the up command's action sequence run by
\* run_pipeline, alone or after a pre-flight phase of its first action
\* ------------------------------------------------------------------------
ExecA == Executor("exec-a", "H100", 1, "US", 2, 2, 80 * MiBPerGB)

ExecB == Executor("exec-b", "H100", 8, "FR", Absent, 1, 40 * MiBPerGB)

ExecC == Executor("exec-c", "A100", 1, None, 4, 1, 80 * MiBPerGB)

World(store, catalog, refreshed, gpu_known, choice, api_raises) ==
    [ store |-> store, catalog |-> catalog, refreshed |-> refreshed,
      gpu_known |-> gpu_known, choice |-> choice, api_raises |-> api_raises ]

PipelineWorlds ==
    { World(<< >>, cat, cat, TRUE, 1, r) :
        cat \in { << >>, << ExecA >>, << ExecB, ExecA >> }, r \in BOOLEAN }

JupyterWorld(ps1, install, pending, terminal, final) ==
    [ ps1 |-> ps1, install |-> install, pending |-> pending, terminal |-> terminal,
      final |-> final ]

FirstListings == { "raise", "missing", "noports", "sshonly", "ok" }

PollStatuses == { "SUCCESS", "FAILED", "raise", "PENDING" }

FinalListings == { "url", "nourl", "raise" }

PipelineJupyterWorlds ==
    { JupyterWorld(ps1, TRUE, 0, "SUCCESS", "url") : ps1 \in FirstListings }
    \cup { JupyterWorld("ok", FALSE, 0, "SUCCESS", "url") }
    \cup { JupyterWorld("ok", TRUE, 1, "FAILED", "url"),
           JupyterWorld("ok", TRUE, 1, "PENDING", "nourl") }

PipelineOptions ==
    [ executor_id : { None, "exec-a" }, gpu : { None, "H100" }, count : { Absent },
      country : { None }, ports : { Absent }, name : { None, "my-pod" },
      template_id : { None, "tpl-x" }, volume_id : { None },
      volume_create_params : { None, "params" }, skip_confirm : BOOLEAN,
      interactive : BOOLEAN, termination_time : { None, "2026-12-01T00:00" },
      jupyter : BOOLEAN ]

Init ==
    /\ opts \in PipelineOptions
    /\ ctx = NewContext
    /\ reporter \in { NewReporter(k) : k \in ReporterKinds }
    /\ actions = << >>
    /\ runner = "none"
    /\ pos = 0
    /\ status = "idle"
    /\ retval = None
    /\ raised = NoError
    /\ trace = << >>
    /\ runStart = 0
    /\ opts0 = opts
    /\ SelectorIdle
    /\ ExecAllIdle
    /\ WaitIdle
    /\ UtilsIdle
    /\ JupyterIdle

Next ==
    \/ RunPreflightPhase(PreflightActions)
    \/ RunPipeline(CanonicalSequence)
    \/ RunPipeline(AfterPreflight)
    \/ SkipAction
    \/ ExecResolveExecutor(PipelineWorlds)
    \/ ExecConfirmCreation
    \/ ExecCreateVolumeIfNeeded
    \/ ExecRentPod
    \/ ExecWaitReady
    \/ ExecInstallJupyterIfNeeded(PipelineJupyterWorlds)
    \/ ExecScheduleTerminationIfNeeded
    \/ ExecConnectSSH
    \/ RunnerReturns

Spec == Init /\ [][Next]_vars

\* ------------------------------------------------------------------------
\* Specification of executor resolution: ResolveExecutor alone, under both
\* runners, with identifiers, indices, filters, port requirements and
\* catalogs that change between the two lookups
\* ------------------------------------------------------------------------
ResolveStores == { << >>, << "exec-a" >>, << "exec-c", "exec-a" >> }

ResolveCatalogs ==
    { << >>, << ExecA >>, << ExecB, ExecA >>, << ExecA, ExecB >>, << ExecC >> }

ResolveWorlds ==
    { World(store, cat, ref, known, 1, r) :
        store \in ResolveStores, cat \in ResolveCatalogs,
        ref \in { << >>, << ExecB, ExecA >> }, known \in BOOLEAN, r \in BOOLEAN }
    \cup { World(<< >>, << ExecB, ExecA >>, << ExecB, ExecA >>, TRUE, 2, FALSE) }

ResolveOptions ==
    [ executor_id : { None, "exec-a", "exec-b", "1", "2" }, gpu : { None, "H100", "B200" },
      count : { Absent, 8 }, country : { None, "us" }, ports : { Absent, 2, 4 },
      name : { None }, template_id : { None }, volume_id : { None },
      volume_create_params : { None }, skip_confirm : { TRUE },
      interactive : { FALSE }, termination_time : { None }, jupyter : { FALSE } ]

ResolveInit ==
    /\ opts \in ResolveOptions
    /\ ctx = NewContext
    /\ reporter \in { NewReporter(k) : k \in ReporterKinds }
    /\ actions = << >>
    /\ runner = "none"
    /\ pos = 0
    /\ status = "idle"
    /\ retval = None
    /\ raised = NoError
    /\ trace = << >>
    /\ runStart = 0
    /\ opts0 = opts
    /\ SelectorIdle
    /\ ExecAllIdle
    /\ WaitIdle
    /\ UtilsIdle
    /\ JupyterIdle

ResolveNext ==
    \/ RunPreflightPhase(PreflightActions)
    \/ RunPipeline(PreflightActions)
    \/ ExecResolveExecutor(ResolveWorlds)
    \/ RunnerReturns

SpecResolve == ResolveInit /\ [][ResolveNext]_vars

\* ------------------------------------------------------------------------
\* Specification of the two-phase run: run_preflight_phase on a prefix of
\* the canonical sequence, then run_pipeline on the actions that remain
\* ------------------------------------------------------------------------
PreflightOptions ==
    [ executor_id : { None, "exec-a" }, gpu : { None, "H100" }, count : { Absent },
      country : { None }, ports : { Absent }, name : { None },
      template_id : { "tpl-x" }, volume_id : { None },
      volume_create_params : { None, "params" }, skip_confirm : BOOLEAN,
      interactive : { FALSE }, termination_time : { None, "2026-12-01T00:00" },
      jupyter : BOOLEAN ]

PreflightInit ==
    /\ opts \in PreflightOptions
    /\ ctx = NewContext
    /\ reporter \in { NewReporter(k) : k \in ReporterKinds }
    /\ actions = << >>
    /\ runner = "none"
    /\ pos = 0
    /\ status = "idle"
    /\ retval = None
    /\ raised = NoError
    /\ trace = << >>
    /\ runStart = 0
    /\ opts0 = opts
    /\ SelectorIdle
    /\ ExecAllIdle
    /\ WaitIdle
    /\ UtilsIdle
    /\ JupyterIdle

\* The caller of the two phases: the pipeline gets the actions the
\* pre-flight phase did not run.
PipelineAfterPreflight ==
    /\ runner = "run_preflight_phase"
    /\ RunPipeline(SubSeq(CanonicalSequence, Len(actions) + 1, Len(CanonicalSequence)))

PreflightNext ==
    \/ \E k \in 1..MaxPreflight : RunPreflightPhase(SubSeq(CanonicalSequence, 1, k))
    \/ PipelineAfterPreflight
    \/ SkipAction
    \/ ExecResolveExecutor(PipelineWorlds)
    \/ ExecConfirmCreation
    \/ ExecCreateVolumeIfNeeded
    \/ ExecRentPod
    \/ ExecWaitReady
    \/ ExecInstallJupyterIfNeeded(PipelineJupyterWorlds)
    \/ ExecScheduleTerminationIfNeeded
    \/ ExecConnectSSH
    \/ RunnerReturns

SpecPreflight == PreflightInit /\ [][PreflightNext]_vars

\* ------------------------------------------------------------------------
\* Specification of Lium.wait_ready: the bounded wait called on its own;
\* podFate: whether the awaited pod can ever be seen ready
\* ------------------------------------------------------------------------
WaitReadyInit ==
    /\ waitPc = "test"
    /\ waitFn = "wait_ready"
    /\ wait_pod_id = "pod-1"
    /\ timeout \in 0..MaxTimeout
    /\ poll_interval \in 1..2
    /\ elapsed = 0
    /\ polls = 0
    /\ fresh_pods = << >>
    /\ waitRet = NoPod
    /\ podFate \in { "may get ready", "never ready" }
    /\ SelectorIdle
    /\ PipelineIdle
    /\ ExecAllIdle
    /\ UtilsIdle
    /\ JupyterIdle

WaitReadyNext ==
    \/ WaitTest
    \/ WaitPoll
    \/ WaitPollRaises
    \/ WaitSleep

SpecWaitReady == WaitReadyInit /\ [][WaitReadyNext]_vars

\* ------------------------------------------------------------------------
\* Specification of the up pipeline with the wait of WaitReady unfolded:
\* the polls of wait_ready_no_timeout are steps of the run, and the loop
\* of the runner goes on when the wait has returned or raised
\* ------------------------------------------------------------------------

\* WaitReady.execute enters its step and calls
\* wait_ready_no_timeout(ctx.lium, ctx.pod_id), whatever opts.interactive.
WaitReadyCalls ==
    /\ AtAction("WaitReady")
    /\ waitPc = "idle"
    /\ waitPc' = "poll"
    /\ waitFn' = "wait_ready_no_timeout"
    /\ wait_pod_id' = ctx.pod_id
    /\ UNCHANGED << timeout, poll_interval, elapsed, polls, fresh_pods, waitRet, podFate,
                    selectorVars, pipelineVars, execAllVars, utilVars, jupyterVars >>

\* The wait is over: WaitReady.execute stores the pod and returns True, or
\* the error of the poll propagates.
WaitReadyDone ==
    /\ AtAction("WaitReady")
    /\ waitFn = "wait_ready_no_timeout"
    /\ waitPc \in { "returned", "raised" }
    /\ Executed("WaitReady", WaitReady_execute(ctx, opts, reporter, waitPc = "returned"))

UpWaitOptions ==
    [ executor_id : { "exec-a" }, gpu : { None }, count : { Absent },
      country : { None }, ports : { Absent }, name : { None, "my-pod" },
      template_id : { "tpl-x" }, volume_id : { None },
      volume_create_params : { None }, skip_confirm : BOOLEAN,
      interactive : BOOLEAN, termination_time : { None, "2026-12-01T00:00" },
      jupyter : BOOLEAN ]

UpWaitWorlds == { World(<< >>, << ExecA >>, << ExecA >>, TRUE, 1, FALSE) }

UpWaitInit ==
    /\ opts \in UpWaitOptions
    /\ ctx = NewContext
    /\ reporter = NewReporter("Reporter")
    /\ actions = << >>
    /\ runner = "none"
    /\ pos = 0
    /\ status = "idle"
    /\ retval = None
    /\ raised = NoError
    /\ trace = << >>
    /\ runStart = 0
    /\ opts0 = opts
    /\ waitPc = "idle"
    /\ waitFn = None
    /\ wait_pod_id = None
    /\ timeout = 0
    /\ poll_interval = 0
    /\ elapsed = 0
    /\ polls = 0
    /\ fresh_pods = << >>
    /\ waitRet = NoPod
    /\ podFate \in { "may get ready", "never ready" }
    /\ SelectorIdle
    /\ ExecAllIdle
    /\ UtilsIdle
    /\ JupyterIdle

UpWaitNext ==
    \/ RunPipeline(CanonicalSequence)
    \/ SkipAction
    \/ ExecResolveExecutor(UpWaitWorlds)
    \/ ExecConfirmCreation
    \/ ExecRentPod
    \/ WaitReadyCalls
    \/ NoTimeoutPoll
    \/ NoTimeoutPollRaises
    \/ NoTimeoutSleep
    \/ WaitReadyDone
    \/ ExecInstallJupyterIfNeeded(PipelineJupyterWorlds)
    \/ ExecScheduleTerminationIfNeeded
    \/ ExecConnectSSH
    \/ RunnerReturns

\* Every call of a collaborator returns or raises and the interpreter keeps
\* running the loop: a step that can be taken is eventually taken.
SpecUpWait == UpWaitInit /\ [][UpWaitNext]_vars /\ WF_vars(UpWaitNext)

\* ------------------------------------------------------------------------
\* Specification of cli/utils.py: one use of loading_status or one call of
\* a function wrapped with handle_errors
\* ------------------------------------------------------------------------
UtilsInit ==
    /\ utilFn \in { "loading_status", "handle_errors" }
    /\ utilPc = "call"
    /\ block \in { Returns(None), Returns("value") }
           \cup { Raises(k, m) : k \in { "LiumError", "ValueError", "KeyboardInterrupt" },
                                m \in { "Test error", "" } }
    /\ message \in IF utilFn = "loading_status" THEN { "Testing", "Loading Templates" }
                   ELSE { None }
    /\ success_message \in IF utilFn = "loading_status" THEN { "", "Success" }
                           ELSE { None }
    /\ console_calls = << >>
    /\ spinner = "none"
    /\ in_flight = NoExc
    /\ utilOutcome = NoExc
    /\ SelectorIdle
    /\ PipelineIdle
    /\ ExecAllIdle
    /\ WaitIdle
    /\ JupyterIdle

UtilsNext ==
    \/ LoadingStatusEnter
    \/ LoadingStatusBlock
    \/ LoadingStatusSuccess
    \/ LoadingStatusExcept
    \/ LoadingStatusFinally
    \/ HandleErrorsCall
    \/ HandleErrorsLiumError
    \/ HandleErrorsException

SpecUtils == UtilsInit /\ [][UtilsNext]_vars

\* ------------------------------------------------------------------------
\* Specification of the status polling of InstallJupyterIfNeeded
\* ------------------------------------------------------------------------

JupyterPollInit ==
    /\ jupPending \in (0 .. MaxPending)
           \cup { (max_wait \div wait_interval) - 1, max_wait \div wait_interval }
    /\ jupTerminal \in PollStatuses
    /\ jupPc = "test"
    /\ jupElapsed = 0
    /\ jupPolls = 0
    /\ jupSeen = None
    /\ jupExit = None
    /\ SelectorIdle
    /\ PipelineIdle
    /\ ExecAllIdle
    /\ WaitIdle
    /\ UtilsIdle

JupyterPollNext ==
    \/ JupyterLoopTest
    \/ JupyterPoll

SpecJupyterPoll == JupyterPollInit /\ [][JupyterPollNext]_vars

\* ------------------------------------------------------------------------
\* Specification of exec_all: every target list and failure pattern, every
\* interleaving of the worker threads
\* ------------------------------------------------------------------------
ExecAllInit ==
    /\ pods \in SeqsUpTo(ExecOutcomes, MaxTargets)
    /\ max_workers \in 1..MaxWorkers
    /\ execAllPc = "call"
    /\ queue = 1
    /\ running = [ w \in 1..MaxWorkers |-> 0 ]
    /\ results = [ i \in 1..Len(pods) |-> Pending ]
    /\ started = [ i \in 1..Len(pods) |-> 0 ]
    /\ SelectorIdle
    /\ PipelineIdle
    /\ WaitIdle
    /\ UtilsIdle
    /\ JupyterIdle

ExecAllNext ==
    \/ ExecAllCall
    \/ \E w \in 1..MaxWorkers : WorkerStarts(w)
    \/ \E w \in 1..MaxWorkers : WorkerFinishes(w)
    \/ ExecAllReturns

SpecExecAll == ExecAllInit /\ [][ExecAllNext]_vars

\* ------------------------------------------------------------------------
\* Properties
\* ------------------------------------------------------------------------

\* The indices in trace of the events of the running (or last) runner call.
RunIndices == (runStart + 1)..Len(trace)

\* The indices of the events at which an action's execute was entered.
ExecuteIndices == { i \in RunIndices : trace[i].ev = "execute" }

CountInRun(e) == Cardinality({ i \in RunIndices : trace[i] = e })

\* C1: when execute of the action at position k returns False, in
\* run_pipeline and in run_preflight_phase, nothing is executed after it
\* and the runner returns without raising; run_preflight_phase returns
\* False.
C1_StopEndsRun ==
    \A i \in RunIndices :
        trace[i].ev = "Stop" =>
            /\ i = Len(trace)
            /\ pos = trace[i].n
            /\ status = "returned"
            /\ raised = NoError
            /\ runner = "run_preflight_phase" => retval = "False"
            /\ runner = "run_pipeline" => retval = None

C1_Witness ==
    /\ runner = "run_pipeline"
    /\ status = "returned"
    /\ pos = 2
    /\ Len(actions) = 8
    /\ trace[Len(trace)] = EvN("Stop", "ConfirmCreation", 2)

C3_TotalStepsOnceFirst ==
    runner = "run_pipeline" =>
        LET expected == Cardinality({ k \in 1..Len(actions) :
                            should_run(actions[k], opts0) /\ counts_as_step(actions[k], opts0) })
        IN /\ Len(trace) > runStart
           /\ trace[runStart + 1] = EvN("set_total_steps", "", expected)
           /\ CountInRun(EvN("set_total_steps", "", expected)) = 1
           /\ \A i \in RunIndices : trace[i].ev = "set_total_steps" => i = runStart + 1
           /\ reporter.kind = "Reporter" => reporter.total_steps = expected

C3_Witness ==
    /\ runner = "run_pipeline"
    /\ status = "returned"
    /\ pos = Len(actions) + 1
    /\ ~ should_run("CreateVolumeIfNeeded", opts0)
    /\ should_run("ConfirmCreation", opts0)
    /\ trace[runStart + 1].n = 4

\* C4: in a run_pipeline run the executed actions are a subsequence of the
\* declared list in declaration order: positions strictly increase (each
\* action at most once), an execute is entered only after the previous one
\* has returned, and only for an action whose should_run holds.
C4_DeclaredOrder ==
    runner = "run_pipeline" =>
        \A i \in ExecuteIndices :
            /\ trace[i].n \in 1..Len(actions)
            /\ trace[i].arg = actions[trace[i].n]
            /\ should_run(actions[trace[i].n], opts0)
            /\ \A j \in ExecuteIndices :
                 i < j => /\ trace[i].n < trace[j].n
                          /\ \E k \in (i + 1)..(j - 1) :
                               trace[k] = EvN("Continue", trace[i].arg, trace[i].n)

C4_Witness ==
    /\ runner = "run_pipeline"
    /\ status = "returned"
    /\ pos = Len(actions) + 1
    /\ Cardinality(ExecuteIndices) = 5
    /\ Len(actions) = 8

\* Pareto dominance on extracted metrics, as the specification words it:
\* at least as good on every metric and strictly better on one.
AtLeastAsGood(a, b, m) ==
    IF m = "price_per_gpu_hour" THEN a[m] <= b[m] ELSE a[m] >= b[m]

StrictlyBetter(a, b, m) ==
    IF m = "price_per_gpu_hour" THEN a[m] < b[m] ELSE a[m] > b[m]

ParetoDominates(a, b) ==
    /\ \A m \in MetricNames : AtLeastAsGood(a, b, m)
    /\ \E m \in MetricNames : StrictlyBetter(a, b, m)

Extracted(i) == extract_executor_metrics(executors[i])

C6_OneResultPerTarget ==
    /\ execAllPc # "raised"
    /\ execAllPc = "returned" =>
         /\ DOMAIN results = 1..Len(pods)
         /\ \A i \in 1..Len(pods) :
              /\ results[i].done
              /\ ~ results[i].success <=> pods[i] \in { "fail", "raise" }

\* C7 as stated: whenever InstallJupyterIfNeeded runs, its execute returns
\* Continue, whatever its collaborators do.
C7_JupyterAlwaysContinues ==
    \A i \in RunIndices :
        trace[i].ev \in { "Stop", "Raise" } => trace[i].arg # "InstallJupyterIfNeeded"

\* The events of the run at which lium.get_executor was called, and at
\* which the stored catalog was refreshed.
LookupIndices ==
    { i \in RunIndices : trace[i].arg = "lium.get_executor"
                         /\ trace[i].ev \in { "call", "call raised" } }

RefreshIndices ==
    { i \in RunIndices : trace[i].arg = "ls_store_executor"
                         /\ trace[i].ev \in { "call", "call raised" } }

NotFound(i) == trace[i].ev = "call" /\ trace[i].n = 0

\* C8 as stated: whenever ResolveExecutor returns Stop, the failure was
\* reported through the Context's Reporter.error, nothing was raised and
\* Context.executor is unset (on the fresh Context of a pre-flight phase).
C8_FailureReportedViaReporter ==
    \A i \in RunIndices :
        trace[i].ev = "Stop" /\ trace[i].arg = "ResolveExecutor" =>
            /\ \E j \in RunIndices : j < i /\ trace[j].ev = "reporter.error"
            /\ raised = NoError
            /\ runner = "run_preflight_phase" => ctx.executor = NoExecutor

\* C9: when ResolveExecutor resolves an explicit identifier, the executor
\* lookup is attempted at most twice and the catalog refreshed at most
\* once; the refresh comes after a first lookup that returned not-found and
\* before the second lookup; after a second not-found lookup nothing more
\* is attempted and the resolution fails.
C9_SingleRetry ==
    TruthyS(opts0.executor_id) =>
        /\ Cardinality(LookupIndices) <= 2
        /\ Cardinality(RefreshIndices) <= 1
        /\ \A r \in RefreshIndices :
             \E l \in LookupIndices :
                 /\ l < r
                 /\ NotFound(l)
                 /\ \A k \in LookupIndices : k >= l
        /\ \A l2 \in LookupIndices :
             (\E l \in LookupIndices : l < l2) =>
                 \E r \in RefreshIndices, l \in LookupIndices :
                     l < r /\ r < l2 /\ NotFound(l)
        /\ \A l2 \in LookupIndices :
             (\E l \in LookupIndices : l < l2) /\ NotFound(l2) =>
                 /\ \A k \in LookupIndices \cup RefreshIndices : k <= l2
                 /\ runner = "run_preflight_phase" => ctx.executor = NoExecutor
                 /\ status # "running" =>
                      trace[Len(trace)] = EvN("Stop", "ResolveExecutor", 1)

\* A stale index: the first lookup finds nothing, the catalog is refreshed
\* and the second lookup resolves the executor.
C9_Witness ==
    /\ opts0.executor_id \in DigitStrings
    /\ Cardinality(LookupIndices) = 2
    /\ Cardinality(RefreshIndices) = 1
    /\ \E l \in LookupIndices : NotFound(l)
    /\ \E l \in LookupIndices : trace[l].ev = "call" /\ trace[l].n = 1
    /\ ctx.executor # NoExecutor
    /\ status = "returned"

\* C10: in a run_pipeline run of the canonical sequence lium.up and
\* lium.schedule_termination are each called at most once, and when one of
\* them raises the error propagates out of run_pipeline and no later action
\* (ConnectSSH in particular) is executed.
C10_NoRetryErrorsPropagate ==
    runner = "run_pipeline" =>
        \A name \in { "lium.up", "lium.schedule_termination" } :
            /\ Cardinality({ i \in RunIndices :
                   trace[i].arg = name /\ trace[i].ev \in { "call", "call raised" } }) <= 1
            /\ \A i \in RunIndices :
                 trace[i] = CallRaised(name) =>
                     /\ status = "raised"
                     /\ raised.origin = name
                     /\ \A j \in (i + 1)..Len(trace) :
                          trace[j].ev \notin { "execute", "call", "call raised" }

C10_Witness ==
    /\ runner = "run_pipeline"
    /\ status = "raised"
    /\ raised.origin = "lium.schedule_termination"
    /\ CountInRun(Call("lium.up")) = 1
    /\ actions = CanonicalSequence

\* The calls of a run that change something outside the process: volume
\* creation, provisioning, Jupyter installation, termination scheduling.
SideEffectCalls ==
    { "lium.volume_create", "lium.up", "lium.install_jupyter",
      "lium.schedule_termination" }

\* C11: in a run_pipeline run of the canonical sequence, a declined
\* confirmation is followed by the "Cancelled" warning and Stop of
\* ConfirmCreation, the runner returns without raising and no
\* side-effecting call is made in the run; with skip_confirm set
\* ConfirmCreation is never executed; and total_steps is the count over the
\* other actions only.
C11_DeclineStopsBeforeSideEffects ==
    (runner = "run_pipeline" /\ actions = CanonicalSequence) =>
        /\ \A i \in RunIndices :
             trace[i] = Asked(FALSE) =>
                 /\ Len(trace) = i + 2
                 /\ trace[i + 1] = Ev("reporter.warning", "Cancelled")
                 /\ trace[i + 2] = EvN("Stop", "ConfirmCreation", 2)
                 /\ status = "returned"
                 /\ raised = NoError
                 /\ \A j \in RunIndices :
                      trace[j].ev \in { "call", "call raised" }
                          => trace[j].arg \notin SideEffectCalls
        /\ opts0.skip_confirm =>
             \A i \in RunIndices :
                 ~ (trace[i].ev \in { "execute", "call" }
                    /\ trace[i].arg \in { "ConfirmCreation", "Confirm.ask" })
        /\ trace[runStart + 1].n =
             Cardinality({ k \in 1..Len(actions) :
                 /\ actions[k] # "ConfirmCreation"
                 /\ should_run(actions[k], opts0)
                 /\ counts_as_step(actions[k], opts0) })

C11_Witness ==
    /\ runner = "run_pipeline"
    /\ actions = CanonicalSequence
    /\ ~ opts0.skip_confirm
    /\ status = "returned"
    /\ trace[Len(trace)] = EvN("Stop", "ConfirmCreation", 2)
    /\ \E i \in RunIndices : trace[i] = Asked(FALSE)

\* The events of the run at which a Context slot was assigned.
WritesOf(slot) == { i \in RunIndices : trace[i].ev = "write" /\ trace[i].arg = slot }

\* C12 as stated: in a run_pipeline run of the canonical sequence every
\* Context slot is assigned at most once, so by one action only, and keeps
\* the value of that assignment.
C12_SlotsWrittenOnce ==
    (runner = "run_pipeline" /\ actions = CanonicalSequence /\ runStart = 0) =>
        \A k \in 1..Len(ContextSlots) : Cardinality(WritesOf(ContextSlots[k])) <= 1

\* C13 as stated: when a run_pipeline run of the canonical sequence has
\* ended, every field of Context.opts has the value it had when the run
\* started.
C13_OptionsImmutable ==
    (runner = "run_pipeline" /\ actions = CanonicalSequence
        /\ status \in { "returned", "raised" }) => opts = opts0

\* The events of the run at which a reporter.step scope was opened.
StepIndices == { i \in RunIndices : trace[i].ev = "reporter.step" }

\* C14: a pre-flight phase on a fresh Context never calls set_total_steps
\* and leaves current_step and total_steps as they were (0), whatever step
\* scopes its actions open; the first step scope of the pipeline that
\* follows is displayed as step 1.
C14_PreflightKeepsCounters ==
    /\ runner = "run_preflight_phase" =>
         /\ \A i \in RunIndices : trace[i].ev # "set_total_steps"
         /\ reporter.current_step = 0
         /\ reporter.total_steps = 0
         /\ \A i \in StepIndices : trace[i].n = 0
    /\ (runner = "run_pipeline" /\ reporter.kind = "Reporter") =>
         \A i \in StepIndices :
             (\A j \in StepIndices : i <= j) => trace[i].n = 1

C14_Witness ==
    /\ runner = "run_pipeline"
    /\ reporter.kind = "Reporter"
    /\ runStart > 0
    /\ \E i \in 1..runStart : trace[i] = EvN("reporter.step", "Renting machine", 0)
    /\ \E i \in StepIndices : trace[i] = EvN("reporter.step", "Loading image", 1)

\* C15 as stated: in a run_pipeline run of the canonical sequence
\* current_step never exceeds total_steps, and when the run has completed
\* without Stop or error the number of reporter.step scopes opened equals
\* the total_steps reported at its start.
C15_StepProgressAccurate ==
    (runner = "run_pipeline" /\ actions = CanonicalSequence /\ runStart = 0) =>
        /\ reporter.current_step <= reporter.total_steps
        /\ (status = "returned" /\ pos = Len(actions) + 1) =>
             Cardinality(StepIndices) = trace[runStart + 1].n

\* C16 as stated: with a NullReporter in the Context no confirmation
\* prompt reaches the user and ConfirmCreation, when it executes, returns
\* Continue whatever the user would answer.
C16_NullReporterConfirms ==
    reporter.kind = "NullReporter" =>
        \A i \in RunIndices :
            /\ trace[i].arg # "Confirm.ask"
            /\ ~ (trace[i].ev = "Stop" /\ trace[i].arg = "ConfirmCreation")

\* C17 as stated: when an explicit executor identifier is given together
\* with a gpu, count or country filter, no executor is resolved and no pod
\* is provisioned.
C17_IdExcludesFilters ==
    (TruthyS(opts0.executor_id)
        /\ (TruthyS(opts0.gpu) \/ TruthyN(opts0.count) \/ TruthyS(opts0.country))) =>
        /\ ctx.executor = NoExecutor
        /\ \A i \in 1..Len(trace) : trace[i].arg # "lium.up"

\* Metric extraction as C18 words it: the sentinel exactly for an absent
\* value, every present value (a price of 0 included) as it is.
SentinelMetrics(e) ==
    [ extract_executor_metrics(e) EXCEPT
          !.price_per_gpu_hour = IF e.price_per_gpu_hour = Absent THEN Inf
                                 ELSE e.price_per_gpu_hour ]

\* C18 as stated: the comparison uses the sentinel exactly for absent
\* metrics, so the flags calculate_pareto_frontier returns are those of
\* Pareto dominance over SentinelMetrics.
C18_SentinelOnlyWhenAbsent ==
    selectorPc = "done" =>
        \A i \in 1..Len(executors) :
            /\ Extracted(i) = SentinelMetrics(executors[i])
            /\ is_pareto[i] <=>
                   ~ \E j \in 1..Len(executors) :
                         j # i /\ ParetoDominates(SentinelMetrics(executors[j]),
                                                  SentinelMetrics(executors[i]))

\* C19 as stated: for a non-empty candidate list the executor
\* _auto_select_executor returns is marked Pareto-optimal and no
\* Pareto-optimal candidate has a strictly lower price per GPU hour; for an
\* empty list nothing is selected.
C19_CheapestParetoSelected ==
    selectorPc = "selected" =>
        LET flags == calculate_pareto_frontier(executors)
        IN IF executors = << >> THEN ctx.executor = NoExecutor
           ELSE /\ \E i \in 1..Len(executors) : flags[i] /\ executors[i] = ctx.executor
                /\ \A j \in 1..Len(executors) :
                     flags[j] => ~ (Extracted(j).price_per_gpu_hour
                                      < extract_executor_metrics(ctx.executor).price_per_gpu_hour)

\* C20: on a non-empty list calculate_pareto_frontier marks at least one
\* candidate, and dominance on the extracted metrics of the candidates is
\* irreflexive, asymmetric and transitive.
C20_FrontierNonEmpty ==
    selectorPc = "done" =>
        /\ Len(executors) > 0 => \E i \in 1..Len(executors) : is_pareto[i]
        /\ \A i \in 1..Len(executors) : ~ dominates(Extracted(i), Extracted(i))
        /\ \A i, j \in 1..Len(executors) :
             dominates(Extracted(i), Extracted(j)) =>
                 /\ ~ dominates(Extracted(j), Extracted(i))
                 /\ \A k \in 1..Len(executors) :
                      dominates(Extracted(j), Extracted(k))
                          => dominates(Extracted(i), Extracted(k))

\* Duplicates and a candidate without price and RAM: the duplicates are
\* both marked, the candidate they dominate is not.
C20_Witness ==
    /\ selectorPc = "done"
    /\ Len(executors) = 3
    /\ executors[1] = executors[2]
    /\ executors[3].price_per_gpu_hour = Absent
    /\ executors[3].ram_total = Absent
    /\ is_pareto = << TRUE, TRUE, FALSE >>

\* C21: calculate_pareto_frontier returns a list of booleans exactly as long
\* as its input, whose flag i is false exactly when some other candidate
\* dominates candidate i; the empty list gives the empty list and a list of
\* one candidate gives [true].
C21_ParallelFlags ==
    selectorPc = "done" =>
        /\ Len(is_pareto) = Len(executors)
        /\ \A i \in 1..Len(is_pareto) : is_pareto[i] \in BOOLEAN
        /\ \A i \in 1..Len(executors) :
             ~ is_pareto[i] <=>
                 \E j \in 1..Len(executors) :
                     j # i /\ dominates(Extracted(j), Extracted(i))
        /\ executors = << >> => is_pareto = << >>
        /\ Len(executors) = 1 => is_pareto = << TRUE >>

\* The flags follow the candidates' positions: the same three candidates
\* with the dominated one in the middle.
C21_Witness ==
    /\ selectorPc = "done"
    /\ Len(executors) = 3
    /\ is_pareto = << TRUE, FALSE, TRUE >>
    /\ Extracted(2).price_per_gpu_hour = Inf
    /\ executors[2].price_per_gpu_hour = 0

C21_WitnessEmpty == selectorPc = "done" /\ executors = << >> /\ is_pareto = << >>

C21_WitnessSingle == selectorPc = "done" /\ Len(executors) = 1 /\ is_pareto = << TRUE >>

\* The targets whose command is in flight: taken by a worker, not finished.
InFlight == { running[w] : w \in DOMAIN running } \ { 0 }

BusyWorkers == { w \in DOMAIN running : running[w] # 0 }

\* C22: under every interleaving of the workers of exec_all, the command is
\* started at most once per target and exactly once by the time exec_all
\* returns, at most min(max_workers, number of targets) commands are in
\* flight, no two workers run the same target, a failed or raising target
\* never leaves the call unable to go on with the other targets, and a step
\* changes the result entry only of the target the stepping worker runs.
C22_WorkersIndependent ==
    /\ [](execAllPc \in { "running", "returned" } =>
            /\ \A i \in 1..Len(pods) : started[i] <= 1
            /\ Cardinality(BusyWorkers) <= Min(max_workers, Len(pods))
            /\ Cardinality(InFlight) = Cardinality(BusyWorkers)
            /\ \A i \in 1..Len(pods) :
                 /\ results[i].done => started[i] = 1 /\ i \notin InFlight
                 /\ i \in InFlight => started[i] = 1
            /\ execAllPc = "running" => ENABLED ExecAllNext
            /\ execAllPc = "returned" =>
                 \A i \in 1..Len(pods) :
                     started[i] = 1 /\ results[i] = exec_single(pods[i]))
    /\ [][\A i \in 1..Len(pods) :
              results'[i] # results[i] =>
                  \E w \in DOMAIN running : running[w] = i /\ running'[w] = 0
                       /\ \A k \in 1..Len(pods) : k # i => results'[k] = results[k]]_vars

\* One target has raised and two other targets are in flight at once.
C22_Witness ==
    /\ execAllPc = "running"
    /\ Len(pods) = 3
    /\ max_workers = 2
    /\ results[1].error
    /\ InFlight = { 2, 3 }

\* C23 as stated: a non-interactive run of the pipeline always comes to an
\* end (run_pipeline returns or raises), also when the provisioned pod
\* never becomes ready: WaitReady waits without bound only in interactive
\* runs.
C23_NonInteractiveRunEnds ==
    (status = "running" /\ ~ opts.interactive) ~> (status \in { "returned", "raised" })

\* C24: Lium.wait_ready returns a pod only if its last poll listed the pod
\* with the requested id in status RUNNING (in any case) with a non-empty
\* SSH command; it polls only while less than the timeout has elapsed and,
\* when the timeout has elapsed at the loop test, returns None without
\* another poll; it raises only if a poll raises; with a timeout of 0 it
\* never polls; the number of polls is at most the timeout in seconds.
C24_BoundedWait ==
    /\ [](waitFn = "wait_ready" =>
            /\ (waitPc = "returned" /\ waitRet # NoPod) =>
                 /\ polls >= 1
                 /\ waitRet \in { fresh_pods[k] : k \in 1..Len(fresh_pods) }
                 /\ waitRet.id = wait_pod_id
                 /\ waitRet.status \in { "RUNNING", "running" }
                 /\ waitRet.ssh_cmd \notin { None, "" }
            /\ (waitPc = "returned" /\ waitRet = NoPod) => elapsed >= timeout
            /\ waitPc = "poll" => elapsed < timeout
            /\ timeout = 0 => polls = 0 /\ waitPc \in { "test", "returned" }
            /\ polls <= timeout)
    /\ [][waitFn = "wait_ready" =>
            /\ (waitPc = "test" /\ elapsed >= timeout) =>
                 waitPc' = "returned" /\ waitRet' = NoPod /\ polls' = polls
            /\ waitPc' = "raised" => waitPc = "poll"
            /\ waitPc = "returned" => waitPc' = "returned"]_vars

\* The timeout of 2 seconds elapsed after two polls that saw the pod
\* running without an SSH command: None is returned.
C24_Witness ==
    /\ waitFn = "wait_ready"
    /\ waitPc = "returned"
    /\ waitRet = NoPod
    /\ timeout = 2
    /\ polls = 2
    /\ fresh_pods = << PodSeen("pod-1", "RUNNING", "") >>

C24_WitnessReady ==
    /\ waitFn = "wait_ready"
    /\ waitPc = "returned"
    /\ waitRet = PodSeen("pod-1", "running", "ssh pod")
    /\ polls = 2

\* C25 as stated: when RentPod ends without a template in Context.template
\* (the requested one was not found, the interactive selection gave none,
\* or no fallback was available), it has reported an error through the
\* Reporter, returned Stop, raised nothing and not called lium.up; and when
\* no template was requested, none was selected interactively and a
\* fallback exists, RentPod goes on to lium.up with Context.template set.
C25_NoTemplateStops ==
    (runner = "run_pipeline" /\ actions = CanonicalSequence /\ Len(trace) > runStart
        /\ trace[Len(trace)].arg = "RentPod"
        /\ trace[Len(trace)].ev \in { "Stop", "Raise", "Continue" }) =>
        LET entered == CHOOSE i \in RunIndices : trace[i] = EvN("execute", "RentPod", 4)
            calls == { trace[j].arg : j \in { k \in RunIndices : k > entered } }
        IN /\ ctx.template = None =>
                /\ trace[Len(trace)].ev = "Stop"
                /\ raised = NoError
                /\ \E j \in RunIndices : j > entered /\ trace[j].ev = "reporter.error"
                /\ "lium.up" \notin calls
           /\ (~ TruthyS(opts0.template_id) /\ ~ opts0.interactive
                 /\ ctx.template # None) => "lium.up" \in calls

\* The calls made on console, by method.
ConsoleCalls(method) ==
    { i \in 1..Len(console_calls) : console_calls[i].ev = method }

\* C26 as stated: when the function wrapped with handle_errors raises an
\* Exception (a LiumError or another one), the wrapper returns normally and
\* the error was reported through console.error.
C26_ErrorsReportedNotRaised ==
    (utilFn = "handle_errors" /\ utilPc = "left" /\ IsException(block)) =>
        /\ utilOutcome.kind = "return"
        /\ ConsoleCalls("console.error") # { }

\* C27: loading_status lets every exception of its block leave unchanged;
\* when the with statement is left the spinner that was started has been
\* stopped, and stopping is the last thing done; a block that completes
\* leaves normally whatever the success message; the success message is
\* printed exactly when it is non-empty and the block completed.
C27_SpinnerStoppedExceptionKept ==
    utilFn = "loading_status" =>
        /\ utilPc = "left" =>
             /\ spinner = "stopped"
             /\ console_calls[1].ev = "status.start"
             /\ console_calls[Len(console_calls)].ev = "status.stop"
             /\ Cardinality(ConsoleCalls("status.stop")) = 1
             /\ block.kind # "return" => utilOutcome = block
             /\ block.kind = "return" => utilOutcome = Returns(None)
             /\ ConsoleCalls("console.print ok") # { }
                  <=> (block.kind = "return" /\ success_message # "")
             /\ \A i \in ConsoleCalls("console.print ok") :
                  console_calls[i].arg = success_message
        /\ utilPc # "left" => utilOutcome = NoExc
        /\ spinner = "none" => utilPc = "call"

\* A ValueError raised in the block left the with statement after the
\* failure was printed and the spinner stopped.
C27_Witness ==
    /\ utilFn = "loading_status"
    /\ utilPc = "left"
    /\ block = Raises("ValueError", "Test error")
    /\ success_message = "Success"
    /\ utilOutcome = block
    /\ Len(console_calls) = 3
    /\ console_calls[2] = Ev("console.print failed", "Test error")

C27_WitnessEmptyMessage ==
    /\ utilFn = "loading_status"
    /\ utilPc = "left"
    /\ block.kind = "return"
    /\ success_message = ""
    /\ Len(console_calls) = 2

\* C28 as stated: in a run_pipeline run of the canonical sequence an action
\* is executed only when the Context state it reads is there:
\* ConfirmCreation and RentPod with Context.executor set, WaitReady,
\* InstallJupyterIfNeeded and ScheduleTerminationIfNeeded with a non-empty
\* Context.pod_id, ConnectSSH with a pod name.
C28_ReadsAfterWrites ==
    (runner = "run_pipeline" /\ actions = CanonicalSequence) =>
        /\ (AtAction("ConfirmCreation") \/ AtAction("RentPod"))
              => ctx.executor # NoExecutor
        /\ (AtAction("WaitReady") \/ AtAction("InstallJupyterIfNeeded")
              \/ AtAction("ScheduleTerminationIfNeeded")) => TruthyS(ctx.pod_id)
        /\ AtAction("ConnectSSH") => TruthyS(opts.name)

\* The part of C28 that does not depend on the response of lium.up.
C28_ExecutorAndNameSet ==
    (runner = "run_pipeline" /\ actions = CanonicalSequence) =>
        /\ (AtAction("ConfirmCreation") \/ AtAction("RentPod"))
              => ctx.executor # NoExecutor
        /\ (AtAction("WaitReady") \/ AtAction("InstallJupyterIfNeeded")
              \/ AtAction("ScheduleTerminationIfNeeded")) => ctx.pod_id # None
        /\ AtAction("ConnectSSH") => TruthyS(opts.name)

\* C29 as stated: when ResolveExecutor has returned Continue, the executor
\* in Context.executor meets every constraint the Options carry, whichever
\* way it was resolved: gpu_count equals count, the country code equals
\* country up to case, and available_port_count is at least ports.
C29_ResolvedMeetsOptions ==
    (Len(trace) > runStart /\ trace[Len(trace)] = EvN("Continue", "ResolveExecutor", 1)) =>
        /\ ctx.executor # NoExecutor
        /\ opts.count # Absent => ctx.executor.gpu_count = opts.count
        /\ opts.country # None =>
             /\ ctx.executor.country_code # None
             /\ Upper(ctx.executor.country_code) = Upper(opts.country)
        /\ opts.ports # Absent =>
             /\ ctx.executor.available_port_count # Absent
             /\ ctx.executor.available_port_count >= opts.ports

\* The same with the constraints the explicit-identifier path checks: the
\* port count on every path, count and country when no identifier is given.
C29_ExceptCountAndCountryWithId ==
    (Len(trace) > runStart /\ trace[Len(trace)] = EvN("Continue", "ResolveExecutor", 1)) =>
        /\ ctx.executor # NoExecutor
        /\ (opts.count # Absent /\ ~ TruthyS(opts.executor_id))
              => ctx.executor.gpu_count = opts.count
        /\ (opts.country # None /\ ~ TruthyS(opts.executor_id)) =>
             /\ ctx.executor.country_code # None
             /\ Upper(ctx.executor.country_code) = Upper(opts.country)
        /\ opts.ports # Absent =>
             /\ ctx.executor.available_port_count # Absent
             /\ ctx.executor.available_port_count >= opts.ports


\* C30: the status polling of InstallJupyterIfNeeded is bounded. The loop
\* makes at most 40 polls (max_wait of 120 seconds at wait_interval of 3
\* seconds); when no poll reports SUCCESS or FAILED and every poll returns
\* it is left after exactly 40 polls and the action finishes with Continue;
\* a poll that reports SUCCESS or FAILED is the last one.
C30_PollingBounded ==
    /\ [](/\ jupPolls <= 40
          /\ jupPolls <= max_wait \div wait_interval
          /\ jupPc = "done" =>
                /\ PollLoop(0, 0, jupPending, jupTerminal)
                       = [ polls |-> jupPolls, exit |-> jupExit ]
                /\ jupExit = "timeout" =>
                      /\ jupPolls = 40
                      /\ jupSeen = "PENDING"
                /\ jupExit \in { "SUCCESS", "FAILED" } =>
                      /\ jupSeen = jupExit
                      /\ jupPolls = jupPending + 1
                /\ jupExit # "raise" =>
                      \A final \in FinalListings, kind \in ReporterKinds :
                          InstallJupyterIfNeeded_execute(
                              [ NewContext EXCEPT !.pod_id = "pod-1" ],
                              CHOOSE o \in PipelineOptions : o.jupyter,
                              NewReporter(kind),
                              JupyterWorld("ok", TRUE, jupPending, jupTerminal, final)).result
                              = "Continue")
    /\ [][(jupSeen \in { "SUCCESS", "FAILED" }) => (jupPolls' = jupPolls)]_vars

\* The installation status never becomes final: the loop has been left by
\* its test after the 40th poll.
C30_Witness ==
    /\ jupPc = "done"
    /\ jupTerminal = "PENDING"
    /\ jupExit = "timeout"
    /\ jupPolls = 40

\* A poll reported FAILED after two polls without a final status.
C30_WitnessFinal ==
    /\ jupPc = "done"
    /\ jupPending = 2
    /\ jupExit = "FAILED"
    /\ jupPolls = 3

====
